---- MODULE Spec2Model ----
(***************************************************************************)
(* A model of the liquidity-prediction pipeline of main_ec2.py:            *)
(*   - walk_forward_continuous_learning (the train / validate loop),       *)
(*   - calculate_contract_centrality and the merged feature table,         *)
(*   - the per-contract feature aggregation,                               *)
(*   - the quantile labelling (absolute activity and growth rate),         *)
(*   - infer_top_multi_timeframe's weighted ensemble.                      *)
(* Each part has its own specification over the same variables; the        *)
(* variables of the other parts stay at their initial values.              *)
(***************************************************************************)
EXTENDS Integers, Sequences, FiniteSets, TLC

VARIABLES
    \* ---- walk_forward_continuous_learning ----
    wf_pc,              \* "idle" | "loop" | "done": position in the function
    start_dt,           \* datetime.strptime(start_date): a midnight
    current_dt,         \* datetime.now() taken once when the run starts
    validation_days,    \* the --validation-days argument
    current_date,       \* the loop's training date (a midnight)
    day_number,         \* the loop's cycle counter, from 1
    daily_performance,  \* list of PerformanceRecords of this run
    model_versions,     \* list of model versions of this run
    last_cycle,         \* what the latest loop iteration trained on / tested on
    s3_logs,            \* dates d with logs/<d>-oneinch_logs.csv written
    s3_models,          \* <<day, date>> with walk_forward/day_<day>_<date>.pkl written
    s3_perf,            \* walk_forward_performance_summary.csv: <<>> when absent
    \* ---- feature table and centrality of one log batch ----
    ft_pc,              \* "input": the batch is being read | "done": table built
    logs,               \* the log batch (logs_df): a sequence of LogEvents
    lib,                \* what each networkx call did on this batch's graph
    G,                  \* the DiGraph's weighted edges <<from, to, weight>>
    centrality,         \* the three dicts calculate_contract_centrality returns
    features,           \* the feature table: a set of rows
    \* ---- labelling ----
    lb_pc,              \* "input" | "done"
    lb_mode,            \* which labelling code ran: "backtest", "dated", "rolling"
    feature_rows,       \* rows per contract of the batch the features come from
                        \* (slices[i], logs_df, logs_historical_df)
    other_rows,         \* rows per contract of the second batch
                        \* (future_df / fut, or logs_1d_current_df)
    label_table,        \* liq / liq_df / volume_growth: rows contract, metric, label
    threshold,          \* the quantile, times the quantile's denominator
    labelled_rows,      \* the merged (features, label) rows
    \* ---- infer_top_multi_timeframe ----
    en_pc,              \* "idle" | "done": scores saved | "no_models"
    s3_tf_models,       \* training/models/: the model stored under each key
    timeframes,         \* the --timeframes argument
    current_features,   \* the scored feature rows
    weighted_probabilities, \* the running sum, successful_models and the
                        \* printed "model loaded" lines
    s3_predictions,     \* predictions/*.csv: key and scored rows
    top_k,              \* the --top argument
    no_filter,          \* the --no-filter flag
    pools,              \* filtered_pools, and the symbols resolved for each
                        \* pool checked (the "Checking ..." output)
    \* ---- backtest_one_week ----
    bt_pc,              \* "input" | "done" | "crashed": died on an exception
    week_logs,          \* rolling/oneinch_logs_1W.csv (df)
    blocks_per_day,     \* the --blocks-per-day argument
    bt_top_k,           \* the --top argument of backtest
    slices,             \* the 7 day slices: lo, hi and rows, indexed from 0
    results,            \* one entry per evaluated day, in order
    skipped,            \* the days printed as skipped
    average,             \* the printed average of results, NaN when none
    \* ---- test_model_on_data ----
    tm_pc,               \* "input": validation rows arrive | "ready": they are scored
    y_pred,              \* model.predict(X_val): one 0/1 per validation row
    tm_runs,              \* what each call on this model and these rows returned
    \* ---- generate_training_data (dated mode) ----
    gd_pc,               \* "idle" | "loop" | "done"
    gd_store,            \* per day: is graphs/<day> there, contracts of logs/<day> ({}: no file)
    gd_day,              \* the day the loop is at
    gd_end,              \* the --end date
    all_rows,            \* the merged frames collected so far
    gd_out,              \* what the loop printed for each day
    s3_dataset,           \* training/dated_training_dataset.csv: written, rows
    \* ---- predict_with_walk_forward_model ----
    pw_pc,               \* "idle" | "no performance" | "no model" | "loaded"
    best,                \* the PerformanceRecord at best_idx
    model_key,            \* the key of the artifact that was loaded
    \* ---- dashboard API and hermetik_model.py train ----
    api_pc,              \* "idle" | "features" | "model" | "done" | "failed": one /api/predict request
    train_pc,            \* "idle" | "fitting": contracts written, model not yet dumped
    train_run,           \* the number of the latest training run
    disk_contracts,      \* the run that wrote contracts_<max_lag>.json, 0: no file
    disk_model,          \* the run that wrote growth_model_<h>_<max_lag>.pkl, 0: no file
    model_cache,         \* the run whose model is cached, 0: nothing cached
    contracts_cache,     \* the run whose reverse mapping is cached, 0: nothing cached
    used,                \* the runs whose mapping encoded, model predicted, mapping decoded
    requests             \* requests started so far

wf_vars == <<wf_pc, start_dt, current_dt, validation_days, current_date,
             day_number, daily_performance, model_versions, last_cycle,
             s3_logs, s3_models, s3_perf>>

ft_vars == <<ft_pc, logs, lib, G, centrality, features>>

lb_vars == <<lb_pc, lb_mode, feature_rows, other_rows, label_table, threshold,
             labelled_rows>>

en_vars == <<en_pc, s3_tf_models, timeframes, current_features,
             weighted_probabilities, s3_predictions, top_k, no_filter, pools>>

bt_vars == <<bt_pc, week_logs, blocks_per_day, bt_top_k, slices, results,
             skipped, average>>

tm_vars == <<tm_pc, y_pred, tm_runs>>

gd_vars == <<gd_pc, gd_store, gd_day, gd_end, all_rows, gd_out, s3_dataset>>

pw_vars == <<pw_pc, best, model_key>>

api_vars == <<api_pc, train_pc, train_run, disk_contracts, disk_model, model_cache, contracts_cache, used, requests>>

vars == <<wf_vars, ft_vars, lb_vars, en_vars, bt_vars, tm_vars, gd_vars, pw_vars, api_vars>>

\* what each part leaves alone
not_wf == <<ft_vars, lb_vars, en_vars, bt_vars, tm_vars, gd_vars, pw_vars, api_vars>>
not_ft == <<wf_vars, lb_vars, en_vars, bt_vars, tm_vars, gd_vars, pw_vars, api_vars>>
not_lb == <<wf_vars, ft_vars, en_vars, bt_vars, tm_vars, gd_vars, pw_vars, api_vars>>
not_en == <<wf_vars, ft_vars, lb_vars, bt_vars, tm_vars, gd_vars, pw_vars, api_vars>>
not_bt == <<wf_vars, ft_vars, lb_vars, en_vars, tm_vars, gd_vars, pw_vars, api_vars>>
not_tm == <<wf_vars, ft_vars, lb_vars, en_vars, bt_vars, gd_vars, pw_vars, api_vars>>
not_gd == <<wf_vars, ft_vars, lb_vars, en_vars, bt_vars, tm_vars, pw_vars, api_vars>>
not_pw == <<wf_vars, ft_vars, lb_vars, en_vars, bt_vars, tm_vars, gd_vars, api_vars>>
not_api == <<wf_vars, ft_vars, lb_vars, en_vars, bt_vars, tm_vars, gd_vars, pw_vars>>

-----------------------------------------------------------------------------
(* Bounds of the model *)

\* today, in days after the earliest start date the model draws
MaxDays == 3
\* loop iterations after which the model stops following a run
MaxCycles == 4
\* rows of a log batch whose features are aggregated
MaxLogs == 3
\* rows of a log batch whose token-flow graph is built
MaxGraphLogs == 2
\* block numbers of a log batch run from 1 to MaxBlock
MaxBlock == 3
\* rows of one contract in a batch that is labelled
MaxRows == 3

\* window models in the bucket; windows in one --timeframes request
MaxModels == 2

MaxTimeframes == 2

\* rows of the batch a filtered run reads; the largest --top
MaxFilterLogs == 2

MaxTopK == 2

\* contracts of the batch an ensemble run filters
MaxPools == 4

\* rows of the 1W logs; the largest --blocks-per-day
MaxWeekRows == 6

MaxBlocksPerDay == 2

\* validation rows; calls of test_model_on_data on the same model and rows
MaxValRows == 3

MaxTestRuns == 2

\* days from the earliest --start to the latest --end
MaxGenDays == 2

\* training runs and /api/predict requests while the server is up
MaxTrainRuns == 2

MaxRequests == 3

\* the largest block number when blocks per day vary
MaxWeekBlock == 8

-----------------------------------------------------------------------------
(* Time: an instant is a number of half days; a date (midnight) is even,   *)
(* datetime.now() falls inside a day and is odd.                           *)

timedelta(days) == 2 * days

Midnight(day) == 2 * day

\* the values main() accepts for --validation-days: any int
ValidationDayChoices == {-1, 0, 1, 2}

StartDays == {0, 1}

-----------------------------------------------------------------------------
(* walk_forward_continuous_learning                                        *)

NoCycle == [day |-> 0, training_date |-> 0, validation_date |-> 0,
            training_rows_date |-> 0, trained |-> FALSE, outcome |-> "none",
            store_ok |-> TRUE]

WFIdle ==
    /\ wf_pc = "idle"
    /\ start_dt = 0
    /\ current_dt = 0
    /\ validation_days = 1
    /\ current_date = 0
    /\ day_number = 1
    /\ daily_performance = <<>>
    /\ model_versions = <<>>
    /\ last_cycle = NoCycle
    /\ s3_logs = {}
    /\ s3_models = {}
    /\ s3_perf = <<>>

\* main(): walk-forward --start S --validation-days V, then the function's
\* prologue up to the while loop
WalkForwardStart(startDay, vdays) ==
    /\ wf_pc = "idle"
    /\ start_dt' = Midnight(startDay)
    /\ current_dt' = Midnight(MaxDays) + 1
    /\ validation_days' = vdays
    /\ current_date' = Midnight(startDay)
    /\ day_number' = 1
    /\ daily_performance' = <<>>
    /\ model_versions' = <<>>
    /\ wf_pc' = "loop"
    /\ UNCHANGED <<last_cycle, s3_logs, s3_models, s3_perf>>
    /\ UNCHANGED not_wf

\* pull_and_process_data_for_date: the rows it returns are those of the
\* block range of date_str; result "nodata" (nothing pulled, None),
\* "nolabels" (pulled and saved, labels failed, None) or "rows".
PullResults == {"nodata", "nolabels", "rows"}

\* with data_type "validation" no labels are generated: None or the features
ValidationPullResults == {"nodata", "rows"}

\* the dates whose fresh data save_fresh_data_to_s3 stored during one pull
PullSaved(date, result, saveOk) ==
    IF result # "nodata" /\ saveOk THEN {date} ELSE {}

\* key of save_model_version: day_<day_number>_<date_str>.pkl
ModelKey(day, date) == <<day, date>>

PerformanceRecord(day, tdate, vdate) ==
    [day |-> day, training_date |-> tdate, validation_date |-> vdate]

ModelVersion(day, tdate, perf) ==
    [day |-> day, training_date |-> tdate, performance |-> perf]

\* how an iteration ended: the message it printed, or "tested" when it
\* reached step 4
CycleOutcome(td, trainOk, vd, raises) ==
    IF td # "rows" THEN "no training data"
    ELSE IF ~trainOk THEN "training failed"
    ELSE IF raises THEN "error"
    ELSE IF vd # "rows" THEN "no validation data"
    ELSE "tested"

\* a record appended whatever became of the validation data
RecordsPerformanceUntested(haveValidation, perfOk) == perfOk

\* "if performance:" of step 4, reached only with validation data
RecordsPerformance(haveValidation, perfOk) == haveValidation /\ perfOk

\* one iteration of the while loop; s3Ok: whether the store accepts this
\* iteration's writes (a failed put_object is caught and only printed)
WalkForwardCycle(td, trainOk, vd, perfOk, s3Ok, raises) ==
    /\ wf_pc = "loop"
    /\ current_date < current_dt
    /\ day_number <= MaxCycles
    /\ LET next_date == current_date + timedelta(validation_days)
           trainingSaved == PullSaved(current_date, td, s3Ok)
           haveTraining == td = "rows"
           trained == haveTraining /\ trainOk
           pulledValidation == trained /\ ~raises
           validationSaved ==
               IF pulledValidation THEN PullSaved(next_date, vd, s3Ok) ELSE {}
           haveValidation == pulledValidation /\ vd = "rows"
           performance == RecordsPerformance(haveValidation, perfOk)
       IN  /\ s3_logs' = s3_logs \cup trainingSaved \cup validationSaved
           /\ daily_performance' =
                 IF performance
                 THEN Append(daily_performance,
                             PerformanceRecord(day_number, current_date, next_date))
                 ELSE daily_performance
           /\ model_versions' =
                 IF haveValidation
                 THEN Append(model_versions,
                             ModelVersion(day_number, current_date, performance))
                 ELSE model_versions
           /\ s3_models' =
                 IF haveValidation /\ s3Ok
                 THEN s3_models \cup {ModelKey(day_number, current_date)}
                 ELSE s3_models
           /\ last_cycle' = [day |-> day_number,
                             training_date |-> current_date,
                             validation_date |-> next_date,
                             training_rows_date |-> current_date,
                             trained |-> trained,
                             outcome |-> CycleOutcome(td, trainOk, vd, raises),
                             store_ok |-> s3Ok]
           /\ current_date' = next_date
           /\ day_number' = day_number + 1
    /\ UNCHANGED <<wf_pc, start_dt, current_dt, validation_days, s3_perf>>
    /\ UNCHANGED not_wf

\* the command is run again after a run has ended
WalkForwardRestart(startDay, vdays) ==
    /\ wf_pc = "done"
    /\ start_dt' = Midnight(startDay)
    /\ current_dt' = Midnight(MaxDays) + 1
    /\ validation_days' = vdays
    /\ current_date' = Midnight(startDay)
    /\ day_number' = 1
    /\ daily_performance' = <<>>
    /\ model_versions' = <<>>
    /\ wf_pc' = "loop"
    /\ UNCHANGED <<last_cycle, s3_logs, s3_models, s3_perf>>
    /\ UNCHANGED not_wf

\* the loop has ended: save_performance_summary and return
WalkForwardFinish(saveOk) ==
    /\ wf_pc = "loop"
    /\ ~(current_date < current_dt)
    /\ s3_perf' = IF saveOk THEN daily_performance ELSE s3_perf
    /\ wf_pc' = "done"
    /\ UNCHANGED <<start_dt, current_dt, validation_days, current_date,
                   day_number, daily_performance, model_versions, last_cycle,
                   s3_logs, s3_models>>
    /\ UNCHANGED not_wf

-----------------------------------------------------------------------------
(* Log batches, the token-flow graph and its centrality                    *)

Contracts == {"A", "B", "C"}

Tokens == {"t1", "t2"}

\* a row of logs_df; the Transaction Hash is the row's position
LogEvent(contract, input, output, block) ==
    [contract |-> contract, input |-> input, output |-> output, block |-> block]

\* numbers are fractions <<numerator, denominator>>; NaN is 0/0
Zero == <<0, 1>>

NaN == <<0, 0>>

RECURSIVE GCD(_, _)
GCD(a, b) == IF b = 0 THEN a ELSE GCD(b, a % b)

Fraction(num, den) == <<num \div GCD(num, den), den \div GCD(num, den)>>

\* the values a networkx centrality algorithm may return for a node
LibVals == {Zero, <<1, 2>>}

\* a networkx call either raises or returns a value for every node
LibFailed == [ok |-> FALSE, val |-> Zero]

LibOutcomes == {LibFailed} \cup {[ok |-> TRUE, val |-> v] : v \in LibVals}

NoLib == [betweenness |-> LibFailed, closeness |-> LibFailed,
          power_iteration |-> LibFailed, eigenvector_numpy |-> LibFailed]

NoCentrality == [betweenness_centrality |-> <<>>, closeness_centrality |-> <<>>,
                 eigenvector_centrality |-> <<>>]

FTIdle ==
    /\ ft_pc = "input"
    /\ logs = <<>>
    /\ lib = NoLib
    /\ G = {}
    /\ centrality = NoCentrality
    /\ features = {}

RowsOf(logs_df, contract) ==
    {i \in DOMAIN logs_df : logs_df[i].contract = contract}

ContractsIn(logs_df) == {logs_df[i].contract : i \in DOMAIN logs_df}

\* contract_tokens[contract]: every token the contract touches, input or output
contract_tokens(logs_df, contract) ==
    {logs_df[i].input : i \in RowsOf(logs_df, contract)}
        \cup {logs_df[i].output : i \in RowsOf(logs_df, contract)}

\* contract1_outputs & contract2_inputs
SharedTokens(logs_df, contract1, contract2) ==
    contract_tokens(logs_df, contract1) \cap contract_tokens(logs_df, contract2)

\* the edges list: (contract1, contract2, shared_tokens) for every i != j
\* whose token sets overlap
TokenFlowEdges(logs_df) ==
    {<<p[1], p[2], Cardinality(SharedTokens(logs_df, p[1], p[2]))>> :
        p \in {q \in ContractsIn(logs_df) \X ContractsIn(logs_df) :
                  /\ q[1] # q[2]
                  /\ SharedTokens(logs_df, q[1], q[2]) # {}}}

\* G.nodes() after add_weighted_edges_from: the endpoints of the edges
Nodes(edges) == {e[1] : e \in edges} \cup {e[2] : e \in edges}

\* the dict a successful networkx call returns
LibDict(edges, outcome) == [n \in Nodes(edges) |-> outcome.val]

\* {node: 0 for node in G.nodes()}
ZeroDict(edges) == [n \in Nodes(edges) |-> Zero]

\* nx.in_degree_centrality: in-degree / (len(G) - 1), 1 when len(G) <= 1
in_degree_centrality(edges) ==
    [n \in Nodes(edges) |->
        IF Cardinality(Nodes(edges)) <= 1
        THEN <<1, 1>>
        ELSE Fraction(Cardinality({e \in edges : e[2] = n}),
                      Cardinality(Nodes(edges)) - 1)]

\* try nx.betweenness_centrality, except: zeros
BetweennessCentrality(edges, outcome) ==
    IF outcome.ok THEN LibDict(edges, outcome) ELSE ZeroDict(edges)

\* try nx.closeness_centrality, except: zeros
ClosenessCentrality(edges, outcome) ==
    IF outcome.ok THEN LibDict(edges, outcome) ELSE ZeroDict(edges)

\* the numpy solver tried before the power iteration
EigenvectorCentralityNumpyFirst(edges, power, numpy) ==
    IF numpy.ok THEN LibDict(edges, numpy)
    ELSE IF power.ok THEN LibDict(edges, power)
    ELSE in_degree_centrality(edges)

\* try nx.power_iteration, except: try nx.eigenvector_centrality_numpy,
\* except: nx.in_degree_centrality
EigenvectorCentrality(edges, power, numpy) ==
    IF power.ok THEN LibDict(edges, power)
    ELSE IF numpy.ok THEN LibDict(edges, numpy)
    ELSE in_degree_centrality(edges)

\* betweenness and closeness computed inside one try block
calculate_contract_centrality_one_try(logs_df, outcomes) ==
    LET edges == TokenFlowEdges(logs_df)
        both == [ok |-> outcomes.betweenness.ok /\ outcomes.closeness.ok,
                 val |-> Zero]
    IN  [betweenness_centrality |->
             IF both.ok THEN LibDict(edges, outcomes.betweenness)
             ELSE ZeroDict(edges),
         closeness_centrality |->
             IF both.ok THEN LibDict(edges, outcomes.closeness)
             ELSE ZeroDict(edges),
         eigenvector_centrality |->
             EigenvectorCentrality(edges, outcomes.power_iteration,
                                   outcomes.eigenvector_numpy),
         G |-> edges]

calculate_contract_centrality(logs_df, outcomes) ==
    LET edges == TokenFlowEdges(logs_df)
    IN  [betweenness_centrality |-> BetweennessCentrality(edges, outcomes.betweenness),
         closeness_centrality |-> ClosenessCentrality(edges, outcomes.closeness),
         eigenvector_centrality |->
             EigenvectorCentrality(edges, outcomes.power_iteration,
                                   outcomes.eigenvector_numpy),
         G |-> edges]

Min(S) == CHOOSE x \in S : \A y \in S : x <= y

Max(S) == CHOOSE x \in S : \A y \in S : x >= y

\* min_block taken from the contract's first row instead of the least block
FeatureRowFirstBlock(logs_df, contract) ==
    LET blocks == {logs_df[i].block : i \in RowsOf(logs_df, contract)}
        first == logs_df[Min(RowsOf(logs_df, contract))].block
    IN  [contract |-> contract,
         tx_count |-> Cardinality(RowsOf(logs_df, contract)),
         min_block |-> first,
         max_block |-> Max(blocks),
         activity_span |-> Max(blocks) - first]

\* one row of groupby("Contract Address").agg(count, min, max) with
\* activity_span = max_block - min_block
FeatureRow(logs_df, contract) ==
    LET blocks == {logs_df[i].block : i \in RowsOf(logs_df, contract)}
    IN  [contract |-> contract,
         tx_count |-> Cardinality(RowsOf(logs_df, contract)),
         min_block |-> Min(blocks),
         max_block |-> Max(blocks),
         activity_span |-> Max(blocks) - Min(blocks)]

\* _features_from_logs_df: empty in, empty out; else one row per group
features_from_logs_df(logs_df) ==
    IF logs_df = <<>> THEN {}
    ELSE {FeatureRow(logs_df, c) : c \in ContractsIn(logs_df)}

\* features["contract"].map(d) without the fillna
MapOnly(d, contract) ==
    IF contract \in DOMAIN d THEN d[contract] ELSE NaN

\* features["contract"].map(d).fillna(0)
MapFillna(d, contract) ==
    IF contract \in DOMAIN d THEN d[contract] ELSE Zero

\* the feature table with the three centrality columns
MergedFeatures(logs_df, c) ==
    {[contract |-> r.contract, tx_count |-> r.tx_count,
      min_block |-> r.min_block, max_block |-> r.max_block,
      activity_span |-> r.activity_span,
      betweenness_centrality |-> MapFillna(c.betweenness_centrality, r.contract),
      closeness_centrality |-> MapFillna(c.closeness_centrality, r.contract),
      eigenvector_centrality |-> MapFillna(c.eigenvector_centrality, r.contract)] :
        r \in features_from_logs_df(logs_df)}

\* the next row of the batch is read
AppendLog(contract, input, output, block) ==
    /\ ft_pc = "input"
    /\ logs' = Append(logs, LogEvent(contract, input, output, block))
    /\ UNCHANGED <<ft_pc, lib, G, centrality, features>>
    /\ UNCHANGED not_ft

\* features, calculate_contract_centrality and the three map/fillna lines,
\* as in generate_training_data_from_rolling, infer_top,
\* infer_top_multi_timeframe and pull_and_process_data_for_date
BuildFeatureTable(outcomes) ==
    /\ ft_pc = "input"
    /\ logs # <<>>
    /\ LET c == calculate_contract_centrality(logs, outcomes)
       IN  /\ G' = c.G
           /\ centrality' = [betweenness_centrality |-> c.betweenness_centrality,
                             closeness_centrality |-> c.closeness_centrality,
                             eigenvector_centrality |-> c.eigenvector_centrality]
           /\ features' = MergedFeatures(logs, c)
    /\ lib' = outcomes
    /\ ft_pc' = "done"
    /\ UNCHANGED logs
    /\ UNCHANGED not_ft

-----------------------------------------------------------------------------
(* Labelling: quantile thresholds over a second log batch                  *)

LBIdle ==
    /\ lb_pc = "input"
    /\ lb_mode = "none"
    /\ feature_rows = [c \in Contracts |-> 0]
    /\ other_rows = [c \in Contracts |-> 0]
    /\ label_table = {}
    /\ threshold = 0
    /\ labelled_rows = {}

\* groupby("Contract Address"): the contracts with at least one row
Present(rows) == {c \in Contracts : rows[c] > 0}

\* the k-th smallest (from 0) of the metric column of a table
KthSmallest(table, k) ==
    CHOOSE x \in {r.metric : r \in table} :
        /\ Cardinality({r \in table : r.metric < x}) <= k
        /\ k < Cardinality({r \in table : r.metric <= x})

\* Series.quantile(num / den) with linear interpolation, times den:
\* position (n - 1) * num / den between the two neighbouring order statistics
Quantile(table, num, den) ==
    LET pos == (Cardinality(table) - 1) * num
        lo == KthSmallest(table, pos \div den)
        hi == IF pos % den = 0 THEN lo ELSE KthSmallest(table, (pos \div den) + 1)
    IN  den * lo + (pos % den) * (hi - lo)

\* (metric >= threshold).astype(int), the threshold given times den
WithLabels(table, thr, den) ==
    {[contract |-> r.contract, metric |-> r.metric,
      label |-> IF den * r.metric >= thr THEN 1 ELSE 0] : r \in table}

\* future_tx_count per contract of the future window
FutureTxCount(future) ==
    {[contract |-> c, metric |-> future[c]] : c \in Present(future)}

\* the median taken instead of the 0.9 quantile
MedianQuantile(table) == Quantile(table, 5, 10)

\* .quantile(0.9)
AbsoluteQuantile(table) == Quantile(table, 9, 10)

\* liq["label"] = (liq["future_tx_count"] >= thr): empty when the window is
AbsoluteLabels(future) ==
    IF FutureTxCount(future) = {} THEN {}
    ELSE WithLabels(FutureTxCount(future),
                    AbsoluteQuantile(FutureTxCount(future)), 10)

RECURSIVE Factorial(_)
Factorial(n) == IF n <= 1 THEN 1 ELSE n * Factorial(n - 1)

\* growth percentages are kept as integers: times GrowthScale
GrowthScale == Factorial(MaxRows + 1)

\* (volume_future - volume_1d_current) / (volume_1d_current + 1) * 100
GrowthPct(volume_future, volume_1d_current) ==
    ((volume_future - volume_1d_current) * 100 * GrowthScale)
        \div (volume_1d_current + 1)

\* pd.merge(volume_1d_current, volume_future, how="left").fillna(0) and the
\* growth column: one row per contract of the current 1D logs
VolumeGrowth(historical, current) ==
    {[contract |-> c, metric |-> GrowthPct(historical[c], current[c])] :
        c \in Present(current)}

\* .quantile(0.8) and the label column
GrowthLabels(historical, current) ==
    IF VolumeGrowth(historical, current) = {} THEN {}
    ELSE WithLabels(VolumeGrowth(historical, current),
                    Quantile(VolumeGrowth(historical, current), 4, 5), 5)

\* pd.merge(features, labels, on="contract"): inner join
MergeOnContract(feature_contracts, labels) ==
    {[contract |-> r.contract, label |-> r.label] :
        r \in {x \in labels : x.contract \in feature_contracts}}

\* one more row of a contract in the batch the features come from
AddFeatureRow(c) ==
    /\ lb_pc = "input"
    /\ feature_rows[c] < MaxRows
    /\ feature_rows' = [feature_rows EXCEPT ![c] = @ + 1]
    /\ UNCHANGED <<lb_pc, lb_mode, other_rows, label_table, threshold, labelled_rows>>
    /\ UNCHANGED not_lb

\* one more row of a contract in the second batch
AddOtherRow(c) ==
    /\ lb_pc = "input"
    /\ other_rows[c] < MaxRows
    /\ other_rows' = [other_rows EXCEPT ![c] = @ + 1]
    /\ UNCHANGED <<lb_pc, lb_mode, feature_rows, label_table, threshold, labelled_rows>>
    /\ UNCHANGED not_lb

\* backtest_one_week: day_labels[i] = label_from_future(i), then
\* day_features[i].merge(day_labels[i], on="contract", how="inner");
\* feature_rows is slices[i], other_rows the concatenated future slices
BacktestLabels ==
    /\ lb_pc = "input"
    /\ label_table' = AbsoluteLabels(other_rows)
    /\ threshold' = IF FutureTxCount(other_rows) = {} THEN 0
                    ELSE AbsoluteQuantile(FutureTxCount(other_rows))
    /\ labelled_rows' = MergeOnContract(Present(feature_rows),
                                        AbsoluteLabels(other_rows))
    /\ lb_mode' = "backtest"
    /\ lb_pc' = "done"
    /\ UNCHANGED <<feature_rows, other_rows>>
    /\ UNCHANGED not_lb

\* generate_training_data, one day with logs and future logs: liq_df gets
\* its label column, then liq_df[["contract", "label"]] raises KeyError (the
\* column is still "Contract Address") and the day contributes no row
DatedLabels ==
    /\ lb_pc = "input"
    /\ Present(feature_rows) # {}
    /\ Present(other_rows) # {}
    /\ label_table' = AbsoluteLabels(other_rows)
    /\ threshold' = AbsoluteQuantile(FutureTxCount(other_rows))
    /\ labelled_rows' = {}
    /\ lb_mode' = "dated"
    /\ lb_pc' = "done"
    /\ UNCHANGED <<feature_rows, other_rows>>
    /\ UNCHANGED not_lb

\* generate_training_data_from_rolling: feature_rows is logs_historical_df
\* (features and volume_future), other_rows is logs_1d_current_df
RollingLabels ==
    /\ lb_pc = "input"
    /\ Present(feature_rows) # {}
    /\ Present(other_rows) # {}
    /\ label_table' = GrowthLabels(feature_rows, other_rows)
    /\ threshold' = Quantile(VolumeGrowth(feature_rows, other_rows), 4, 5)
    /\ labelled_rows' = MergeOnContract(Present(feature_rows),
                                        GrowthLabels(feature_rows, other_rows))
    /\ lb_mode' = "rolling"
    /\ lb_pc' = "done"
    /\ UNCHANGED <<feature_rows, other_rows>>
    /\ UNCHANGED not_lb

\* labels.groupby("Contract Address").size(): the day's own rows
DayVolume(fresh_data) ==
    {[contract |-> c, metric |-> fresh_data[c]] : c \in Present(fresh_data)}

\* generate_training_labels: .quantile(0.8) of the day's own volume
generate_training_labels(fresh_data) ==
    WithLabels(DayVolume(fresh_data), Quantile(DayVolume(fresh_data), 4, 5), 5)

\* pull_and_process_data_for_date(date, bucket, "training") on a day with
\* data: feature_rows is fresh_data; other_rows, the logs of the three days
\* after it, is not read
WalkForwardLabels ==
    /\ lb_pc = "input"
    /\ Present(feature_rows) # {}
    /\ label_table' = generate_training_labels(feature_rows)
    /\ threshold' = Quantile(DayVolume(feature_rows), 4, 5)
    /\ labelled_rows' = MergeOnContract(Present(feature_rows),
                                        generate_training_labels(feature_rows))
    /\ lb_mode' = "walk_forward"
    /\ lb_pc' = "done"
    /\ UNCHANGED <<feature_rows, other_rows>>
    /\ UNCHANGED not_lb

-----------------------------------------------------------------------------
(* infer_top_multi_timeframe: the weighted ensemble of the window models *)

\* the windows of --timeframes and, in lower case, of train --lookback
Windows == {"1D", "3D", "1W", "3W", "1M"}

\* timeframe.lower()
Lower(timeframe) ==
    CASE timeframe = "1D" -> "1d"
      [] timeframe = "3D" -> "3d"
      [] timeframe = "1W" -> "1w"
      [] timeframe = "3W" -> "3w"
      [] timeframe = "1M" -> "1m"

\* the default lookback stored under the unscoped key
WindowModelKeyUnscopedDefault(tf_lower) ==
    IF tf_lower = "3d" THEN <<"random_forest">> ELSE <<"random_forest", tf_lower>>

\* training/models/random_forest_<tf_lower>.pkl with its feature list
WindowModelKey(tf_lower) == <<"random_forest", tf_lower>>

\* training/models/random_forest.pkl with training/models/feature_list.json
OriginalModelKey == <<"random_forest">>

ArtifactKeys == {WindowModelKey(Lower(w)) : w \in Windows} \cup {OriginalModelKey}

\* what model.fit can return: "busy" scores a feature row by its tx_count;
\* "one_class" was fitted on labels of a single class, so predict_proba
\* has one column and [:, 1] raises IndexError
FitOutcomes == {"busy", "one_class"}

\* the original model scores every row alike
OriginalModels == {"even"}

\* a table in which 3W and 1M share five percent
timeframe_weights_sharing ==
    [w \in Windows |->
        CASE w = "1D" -> 40
          [] w = "3D" -> 35
          [] w = "1W" -> 20
          [] w = "3W" -> 3
          [] w = "1M" -> 2]

\* the weights, in percent (0.4 is 40)
timeframe_weights ==
    [w \in Windows |->
        CASE w = "1D" -> 40
          [] w = "3D" -> 35
          [] w = "1W" -> 20
          [] w = "3W" -> 5
          [] w = "1M" -> 5]

\* timeframe_weights.get(timeframe, 0.1)
TimeframeWeight(timeframe) ==
    IF timeframe \in DOMAIN timeframe_weights
    THEN timeframe_weights[timeframe]
    ELSE 10

\* model.predict_proba(X_model)[:, 1] of one feature row, in votes of the
\* forest's 200 trees
PredictProba(model, row) ==
    CASE model = "busy" -> IF row.tx_count >= 2 THEN 150 ELSE 50
      [] model = "even" -> 100

\* weighted_probabilities = None, successful_models = [], nothing printed
NoScores ==
    [none |-> TRUE, probs |-> <<>>, successful_models |-> <<>>,
     loaded |-> <<>>]

ENIdle ==
    /\ en_pc = "idle"
    /\ s3_tf_models = [k \in ArtifactKeys |-> "absent"]
    /\ timeframes = <<>>
    /\ current_features = {}
    /\ weighted_probabilities = NoScores
    /\ s3_predictions = {}
    /\ top_k = 0
    /\ no_filter = FALSE
    /\ pools = [filtered_pools |-> <<>>, pools_checked |-> <<>>]

\* the original model tried before the window's own
LoadModelOriginalFirst(store, timeframe) ==
    IF store[OriginalModelKey] # "absent"
    THEN [found |-> TRUE, model |-> store[OriginalModelKey],
          model_source |-> "original"]
    ELSE IF store[WindowModelKey(Lower(timeframe))] # "absent"
    THEN [found |-> TRUE, model |-> store[WindowModelKey(Lower(timeframe))],
          model_source |-> "specific"]
    ELSE [found |-> FALSE, model |-> "absent", model_source |-> ""]

\* the two nested try blocks: the window's own model, else the original
\* model, else nothing.  A model counts as stored when both the pickle and
\* its feature list are.
LoadModel(store, timeframe) ==
    IF store[WindowModelKey(Lower(timeframe))] # "absent"
    THEN [found |-> TRUE, model |-> store[WindowModelKey(Lower(timeframe))],
          model_source |-> "specific"]
    ELSE IF store[OriginalModelKey] # "absent"
    THEN [found |-> TRUE, model |-> store[OriginalModelKey],
          model_source |-> "original"]
    ELSE [found |-> FALSE, model |-> "absent", model_source |-> ""]

\* the window is skipped: no model, or scoring raised
Skipped(store, timeframe) ==
    \/ ~LoadModel(store, timeframe).found
    \/ LoadModel(store, timeframe).model = "one_class"

\* probabilities * weight, per contract of current_features
WeightedProbs(model, weight, X) ==
    [c \in {r.contract : r \in X} |->
        PredictProba(model, CHOOSE r \in X : r.contract = c) * weight]

\* the overwrite in place of the in-place addition
ReplaceWeighted(acc, weighted_probs) ==
    weighted_probs

\* weighted_probabilities = weighted_probs, or += weighted_probs
AddWeighted(acc, weighted_probs) ==
    IF acc.none THEN weighted_probs
    ELSE [c \in DOMAIN weighted_probs |-> acc.probs[c] + weighted_probs[c]]

\* the loop left at the first window whose scoring raises
RECURSIVE ScoreTimeframesUntilError(_, _, _, _)
ScoreTimeframesUntilError(tfs, store, X, acc) ==
    IF tfs = <<>> THEN acc
    ELSE LET timeframe == Head(tfs)
             load == LoadModel(store, timeframe)
             weight == TimeframeWeight(timeframe)
             line == [timeframe |-> timeframe,
                      model_source |-> load.model_source]
         IN  IF ~load.found
             THEN ScoreTimeframesUntilError(Tail(tfs), store, X, acc)
             ELSE IF Skipped(store, timeframe)
             THEN [acc EXCEPT !.loaded = Append(@, line)]
             ELSE ScoreTimeframesUntilError(Tail(tfs), store, X,
                    [none |-> FALSE,
                     probs |-> AddWeighted(acc,
                                   WeightedProbs(load.model, weight, X)),
                     successful_models |->
                         Append(acc.successful_models,
                                [timeframe |-> timeframe, weight |-> weight]),
                     loaded |-> Append(acc.loaded, line)])

\* the body of "for timeframe in timeframes", in list order.  loaded is
\* the printed "<timeframe> model loaded successfully (<model_source>)"
\* lines: one per window whose model was found, printed before scoring.
RECURSIVE ScoreTimeframes(_, _, _, _)
ScoreTimeframes(tfs, store, X, acc) ==
    IF tfs = <<>> THEN acc
    ELSE LET timeframe == Head(tfs)
             load == LoadModel(store, timeframe)
             weight == TimeframeWeight(timeframe)
             line == [timeframe |-> timeframe,
                      model_source |-> load.model_source]
         IN  IF ~load.found
             THEN ScoreTimeframes(Tail(tfs), store, X, acc)
             ELSE IF Skipped(store, timeframe)
             THEN ScoreTimeframes(Tail(tfs), store, X,
                    [acc EXCEPT !.loaded = Append(@, line)])
             ELSE ScoreTimeframes(Tail(tfs), store, X,
                    [none |-> FALSE,
                     probs |-> AddWeighted(acc,
                                   WeightedProbs(load.model, weight, X)),
                     successful_models |->
                         Append(acc.successful_models,
                                [timeframe |-> timeframe, weight |-> weight]),
                     loaded |-> Append(acc.loaded, line)])

\* current_features["predicted_probability"] = weighted_probabilities
WithProbability(X, probs) ==
    {[contract |-> r.contract, tx_count |-> r.tx_count,
      activity_span |-> r.activity_span,
      predicted_probability |-> probs[r.contract]] : r \in X}

\* predictions/multi_timeframe_predictions_<tf.lower() joined by _>.csv
PredictionsKey(tfs) == [i \in DOMAIN tfs |-> Lower(tfs[i])]

\* what rolling/oneinch_logs_1D.csv holds when the command runs
CurrentBatches ==
    {<<LogEvent("A", "t1", "t2", 1), LogEvent("A", "t1", "t2", 2),
       LogEvent("B", "t1", "t2", 2)>>,
     <<LogEvent("C", "t1", "t2", 1)>>}

\* train --lookback <lookback_period>: with no dataset the command returns;
\* otherwise the fitted model and its feature list are stored under the
\* window's keys
TrainModel(lookback_period, datasetFound, model) ==
    /\ en_pc = "idle"
    /\ \/ s3_tf_models[WindowModelKey(lookback_period)] # "absent"
       \/ Cardinality({w \in Windows :
              s3_tf_models[WindowModelKey(Lower(w))] # "absent"}) < MaxModels
    /\ s3_tf_models' =
          IF datasetFound
          THEN [s3_tf_models EXCEPT ![WindowModelKey(lookback_period)] = model]
          ELSE s3_tf_models
    /\ UNCHANGED <<en_pc, timeframes, current_features,
                   weighted_probabilities, s3_predictions, top_k, no_filter,
                   pools>>
    /\ UNCHANGED not_en

\* the original model is put in the bucket by hand: no command writes its key
PutOriginalModel(model) ==
    /\ en_pc = "idle"
    /\ s3_tf_models[OriginalModelKey] = "absent"
    /\ s3_tf_models' = [s3_tf_models EXCEPT ![OriginalModelKey] = model]
    /\ UNCHANGED <<en_pc, timeframes, current_features,
                   weighted_probabilities, s3_predictions, top_k, no_filter,
                   pools>>
    /\ UNCHANGED not_en

-----------------------------------------------------------------------------
(* the ranked list and the token filter of infer_top,                      *)
(* infer_top_multi_timeframe and predict_with_walk_forward_model           *)

\* token addresses in the logs of a filtered run: USDC and WETH are in
\* KNOWN_TOKENS, the third is not
TokenAddresses == {"0xA0b86991", "0xC02aaA39", "0x1f9840a8"}

KNOWN_TOKENS ==
    [t \in {"0xA0b86991", "0xC02aaA39"} |->
        IF t = "0xA0b86991" THEN "USDC" ELSE "WETH"]

ALLOWED_TOKENS ==
    {"USDE", "MSUSD", "USDC", "PYUSD", "SUSDE", "DAI", "MIM", "EUSD", "USD3",
     "DOLA", "SDAI", "FRAXBP", "USDT", "3CRV", "USDM", "USDS", "frxUSD"}

\* what the symbol() call of a token outside KNOWN_TOKENS does: it returns
\* a symbol (possibly empty), or the provider is not connected or raises
RpcOutcomes == {"USDS", "UNI", "", "error"}

\* token_address[:8] + "..."
Shortened(token_address) ==
    CASE token_address = "0xA0b86991" -> "0xA0b869..."
      [] token_address = "0xC02aaA39" -> "0xC02aaA..."
      [] token_address = "0x1f9840a8" -> "0x1f9840..."
      [] OTHER -> "..."

get_token_symbol(token_address, rpc) ==
    IF token_address \in DOMAIN KNOWN_TOKENS
    THEN KNOWN_TOKENS[token_address]
    ELSE IF rpc = "error" \/ rpc = "" THEN Shortened(token_address)
    ELSE rpc

\* DataFrame.head(n)
HeadRows(rows, n) ==
    IF n >= 0
    THEN SubSeq(rows, 1, IF n < Len(rows) THEN n ELSE Len(rows))
    ELSE SubSeq(rows, 1, IF Len(rows) + n > 0 THEN Len(rows) + n ELSE 0)

\* sort_values(by="predicted_probability", ascending=False): every order
\* of the rows with the probabilities non-increasing (ties in any order)
Rankings(X) ==
    {order \in [1..Cardinality(X) -> X] :
        /\ \A i, j \in 1..Cardinality(X) : i # j => order[i] # order[j]
        /\ \A i, j \in 1..Cardinality(X) :
              i < j => order[i].predicted_probability
                          >= order[j].predicted_probability}

\* the contracts for which the run makes a symbol() call
QueriedContracts(logs_1d_df) ==
    {c \in ContractsIn(logs_1d_df) :
        contract_tokens(logs_1d_df, c) \ DOMAIN KNOWN_TOKENS # {}}

\* the symbols of the contract's tokens, token by token; rpc[contract] is
\* what the symbol() call made for this contract does
ContractTokenSymbols(logs_1d_df, contract, rpc) ==
    [t \in contract_tokens(logs_1d_df, contract) |->
        get_token_symbol(t, IF contract \in DOMAIN rpc THEN rpc[contract]
                            ELSE "error")]

\* a pool passes when one of its tokens is allowed
AnyTokenValid(symbols) ==
    \E t \in DOMAIN symbols : symbols[t] \in ALLOWED_TOKENS

\* all_tokens_valid and len(allowed_tokens_found) == len(contract_token_symbols)
AllTokensValid(symbols) ==
    \A t \in DOMAIN symbols : symbols[t] \in ALLOWED_TOKENS

Pool(row, symbols) ==
    [contract |-> row.contract, prob |-> row.predicted_probability,
     tx_count |-> row.tx_count, all_tokens |-> symbols]

NoPools == [filtered_pools |-> <<>>, pools_checked |-> <<>>]

\* the loop over the candidate rows.  With no_filter every candidate is
\* listed (its sample symbols are display only and not kept); otherwise
\* each candidate's tokens are all resolved, the pool is kept when all are
\* allowed, and the loop stops at top_k pools.
RECURSIVE FilterPools(_, _, _, _, _, _)
FilterPools(candidates, logs_1d_df, k, nofilter, rpc, acc) ==
    IF candidates = <<>> THEN acc
    ELSE LET row == Head(candidates)
             symbols == ContractTokenSymbols(logs_1d_df, row.contract, rpc)
             check == [contract |-> row.contract, symbols |-> symbols]
         IN  IF nofilter
             THEN FilterPools(Tail(candidates), logs_1d_df, k, nofilter, rpc,
                    [acc EXCEPT !.filtered_pools = Append(@, Pool(row, <<>>))])
             ELSE IF AllTokensValid(symbols)
             THEN LET kept == [filtered_pools |->
                                   Append(acc.filtered_pools, Pool(row, symbols)),
                               pools_checked |-> Append(acc.pools_checked, check)]
                  IN  IF Len(kept.filtered_pools) >= k THEN kept
                      ELSE FilterPools(Tail(candidates), logs_1d_df, k,
                                       nofilter, rpc, kept)
             ELSE FilterPools(Tail(candidates), logs_1d_df, k, nofilter, rpc,
                    [acc EXCEPT !.pools_checked = Append(@, check)])

\* infer_top --top k --lookback p [--no-filter]: one model, the ranked
\* list cut to top_k and then to top_k or top_k * 3, the token filter, and
\* the scored table saved
InferTop(lookback_period, logs_1d_df, k, nofilter, rpc) ==
    /\ en_pc = "idle"
    /\ top_k' = k
    /\ no_filter' = nofilter
    /\ LET model == s3_tf_models[WindowModelKey(lookback_period)]
           X == features_from_logs_df(logs_1d_df)
       IN  IF model = "absent" \/ logs_1d_df = <<>>
           THEN /\ en_pc' = "no_models"
                /\ UNCHANGED <<current_features, pools, s3_predictions>>
           ELSE IF model = "one_class"
           THEN /\ en_pc' = "error"
                /\ current_features' = X
                /\ UNCHANGED <<pools, s3_predictions>>
           ELSE LET scored == WithProbability(X,
                                  [c \in {r.contract : r \in X} |->
                                      PredictProba(model,
                                          CHOOSE r \in X : r.contract = c)])
                IN  /\ en_pc' = "done"
                    /\ current_features' = scored
                    /\ \E order \in Rankings(scored) :
                          pools' = FilterPools(
                              HeadRows(HeadRows(order, k),
                                       IF nofilter THEN k ELSE k * 3),
                              logs_1d_df, k, nofilter, rpc, NoPools)
                    /\ s3_predictions' = s3_predictions \cup
                          {[key |-> <<"rolling", lookback_period>>,
                            rows |-> scored]}
    /\ UNCHANGED <<s3_tf_models, timeframes, weighted_probabilities>>
    /\ UNCHANGED not_en

-----------------------------------------------------------------------------

\* infer-multi --timeframes <tfs> --top k [--no-filter] on the current
\* batch.  The centrality columns are merged as in BuildFeatureTable; no
\* classifier modelled here reads them, and the rows kept are those of
\* _features_from_logs_df.
InferTopMultiTimeframe(tfs, logs_1d_df, k, nofilter, rpc) ==
    /\ en_pc = "idle"
    /\ timeframes' = tfs
    /\ top_k' = k
    /\ no_filter' = nofilter
    /\ LET X == features_from_logs_df(logs_1d_df)
           scores == ScoreTimeframes(tfs, s3_tf_models, X, NoScores)
       IN  /\ weighted_probabilities' = scores
           /\ IF scores.none
              THEN /\ en_pc' = "no_models"
                   /\ current_features' = X
                   /\ s3_predictions' = s3_predictions
                   /\ pools' = pools
              ELSE /\ en_pc' = "done"
                   /\ current_features' = WithProbability(X, scores.probs)
                   /\ \E order \in Rankings(WithProbability(X, scores.probs)) :
                         pools' = FilterPools(
                             HeadRows(order, IF nofilter THEN k ELSE k * 3),
                             logs_1d_df, k, nofilter, rpc, NoPools)
                   /\ s3_predictions' = s3_predictions \cup
                         {[key |-> PredictionsKey(tfs),
                           rows |-> WithProbability(X, scores.probs)]}
    /\ UNCHANGED s3_tf_models
    /\ UNCHANGED not_en

-----------------------------------------------------------------------------
(* backtest_one_week *)

\* range(7): the days of the week's window; range(1, 4): the days ahead a
\* label looks; range(0, 4): the days evaluated
Days == 7

FutureSpan == 3

EvalDays == 4

\* contracts in the 1W logs
WeekContracts == {"A", "B"}

BTIdle ==
    /\ bt_pc = "input"
    /\ week_logs = <<>>
    /\ blocks_per_day = 0
    /\ bt_top_k = 0
    /\ slices = <<>>
    /\ results = <<>>
    /\ skipped = {}
    /\ average = NaN

\* a day's last block taken one too far
SliceHiNextStart(lo, blocks) == lo + blocks

\* hi = lo + blocks_per_day - 1
SliceHi(lo, blocks) == lo + blocks - 1

\* the 7 slices of df by block range, indexed from 0
Slices(df, blocks) ==
    LET max_block == Max({df[i].block : i \in DOMAIN df})
        start_block == max_block - (Days * blocks) + 1
    IN  [i \in 0..(Days - 1) |->
            LET lo == start_block + i * blocks
                hi == SliceHi(lo, blocks)
            IN  [lo |-> lo, hi |-> hi,
                 rows |-> SelectSeq(df, LAMBDA r : r.block >= lo /\ r.block <= hi)]]

\* the days k = day_idx + j, j in range(1, 4), with k < 7
FutureDays(day_idx) ==
    {k \in (day_idx + 1)..(day_idx + FutureSpan) : k < Days}

\* pd.concat(future_parts), counted per contract
ConcatCounts(sl, days) ==
    [c \in Contracts |->
        Cardinality({<<k, j>> \in days \X (1..MaxWeekRows) :
                        /\ j \in DOMAIN sl[k].rows
                        /\ sl[k].rows[j].contract = c})]

\* label_from_future(day_idx): contract, future_tx_count (metric), label
label_from_future(sl, day_idx) ==
    IF FutureDays(day_idx) = {} THEN {}
    ELSE AbsoluteLabels(ConcatCounts(sl, FutureDays(day_idx)))

\* day_features[i].merge(day_labels[i], on="contract", how="inner")
MergedDay(sl, i) ==
    {[day |-> i, contract |-> f.contract, tx_count |-> f.tx_count,
      activity_span |-> f.activity_span, label |-> l.label] :
        <<f, l>> \in {p \in features_from_logs_df(sl[i].rows)
                            \X label_from_future(sl, i) :
                        p[1].contract = p[2].contract}}

\* the training rows of day t: days i < t
TrainingRows(sl, t) == UNION {MergedDay(sl, i) : i \in 0..(t - 1)}

\* prec_at_k = hits / max(1, len(top))
PrecisionAtK(hits, top) == Fraction(hits, Max({1, Len(top)}))

\* one pass of "for t in range(0, 4)".  The forest's scores are not
\* computed here: order is the ranking they give the day's contracts.  A
\* forest fitted on labels of one class has a single probability column and
\* predict_proba(Xt)[:, 1] raises IndexError, which nothing catches.
EvaluateDay(sl, t, k, order) ==
    LET X_test_df == features_from_logs_df(sl[t].rows)
        y_true_df == label_from_future(sl, t)
        scored == SelectSeq(order,
                      LAMBDA c : c \in {f.contract : f \in X_test_df})
        top == HeadRows(scored, k)
        truth == {l.contract : l \in {x \in y_true_df : x.label = 1}}
        hits == Cardinality({i \in DOMAIN top : top[i] \in truth})
        y_train == {r.label : r \in TrainingRows(sl, t)}
    IN  IF y_train = {}
        THEN [outcome |-> "no training data"]
        ELSE IF X_test_df = {} \/ y_true_df = {}
        THEN [outcome |-> "insufficient test data"]
        ELSE IF Cardinality(y_train) = 1
        THEN [outcome |-> "IndexError"]
        ELSE [outcome |-> "evaluated", t |-> t, top |-> top, truth |-> truth,
              hits |-> hits, prec_at_k |-> PrecisionAtK(hits, top)]

AddFraction(a, b) == Fraction(a[1] * b[2] + b[1] * a[2], a[2] * b[2])

RECURSIVE SumPrecision(_)
SumPrecision(res) ==
    IF res = <<>> THEN Zero
    ELSE AddFraction(Head(res).prec_at_k, SumPrecision(Tail(res)))

\* the sum divided by the number of days of the loop
MeanOverLoopDays(res) ==
    Fraction(SumPrecision(res)[1], SumPrecision(res)[2] * EvalDays)

\* sum(results) / len(results)
MeanPrecision(res) ==
    Fraction(SumPrecision(res)[1], SumPrecision(res)[2] * Len(res))

\* the loop from day t on; acc keeps results, the skipped days and whether
\* the run died
RECURSIVE EvaluateFrom(_, _, _, _, _)
EvaluateFrom(sl, t, k, orders, acc) ==
    IF t >= EvalDays THEN acc
    ELSE LET e == EvaluateDay(sl, t, k, orders[t])
         IN  IF e.outcome = "IndexError"
             THEN [acc EXCEPT !.crashed = TRUE]
             ELSE IF e.outcome = "evaluated"
             THEN EvaluateFrom(sl, t + 1, k, orders,
                      [acc EXCEPT !.results = Append(@, e)])
             ELSE EvaluateFrom(sl, t + 1, k, orders,
                      [acc EXCEPT !.skipped = @ \cup {t}])

\* the 1W logs are read in block order; a contract has at most one row per
\* block
AddWeekRow(contract, block) ==
    /\ bt_pc = "input"
    /\ Len(week_logs) < MaxWeekRows
    /\ IF week_logs = <<>> THEN TRUE
       ELSE \/ week_logs[Len(week_logs)].block < block
            \/ /\ week_logs[Len(week_logs)].block = block
               /\ week_logs[Len(week_logs)].contract = "A"
               /\ contract = "B"
    /\ week_logs' = Append(week_logs, LogEvent(contract, "t1", "t2", block))
    /\ UNCHANGED <<bt_pc, blocks_per_day, bt_top_k, slices, results, skipped,
                   average>>
    /\ UNCHANGED not_bt

\* backtest --blocks-per-day blocks --top k
BacktestOneWeek(blocks, k, orders) ==
    /\ bt_pc = "input"
    /\ blocks_per_day' = blocks
    /\ bt_top_k' = k
    /\ IF week_logs = <<>>
       THEN /\ bt_pc' = "done"
            /\ UNCHANGED <<slices, results, skipped, average>>
       ELSE /\ slices' = Slices(week_logs, blocks)
            /\ \E run \in {EvaluateFrom(slices', 0, k, orders,
                                [results |-> <<>>, skipped |-> {},
                                 crashed |-> FALSE])} :
                  /\ results' = run.results
                  /\ skipped' = run.skipped
                  /\ bt_pc' = IF run.crashed THEN "crashed" ELSE "done"
                  /\ average' =
                        IF run.crashed \/ run.results = <<>> THEN NaN
                        ELSE MeanPrecision(run.results)
    /\ UNCHANGED week_logs
    /\ UNCHANGED not_bt

-----------------------------------------------------------------------------
(* test_model_on_data: the validation step of a walk-forward cycle *)

TMIdle ==
    /\ tm_pc = "input"
    /\ y_pred = <<>>
    /\ tm_runs = <<>>

\* the rows i with pred[i] = p and labels[i] = l
Cells(labels, pred, l, p) ==
    Cardinality({i \in DOMAIN pred : labels[i] = l /\ pred[i] = p})

\* a ratio with zero_division=0
Ratio(num, den) == IF den = 0 THEN Zero ELSE Fraction(num, den)

\* accuracy_score, precision_score, recall_score and f1_score of y_pred
\* against the labels
Metrics(labels, pred) ==
    LET tp == Cells(labels, pred, 1, 1)
        fp == Cells(labels, pred, 0, 1)
        fn == Cells(labels, pred, 1, 0)
        tn == Cells(labels, pred, 0, 0)
    IN  [accuracy |-> Fraction(tp + tn, Len(pred)),
         precision |-> Ratio(tp, tp + fp),
         recall |-> Ratio(tp, tp + fn),
         f1_score |-> Ratio(2 * tp, 2 * tp + fp + fn)]

\* np.random.randint(0, 2, size=len(y_pred)): any 0/1 vector
SimulatedLabels(n) == [1..n -> {0, 1}]

\* one more validation row, with what the model predicts for it
AddValidationRow(prediction) ==
    /\ tm_pc = "input"
    /\ Len(y_pred) < MaxValRows
    /\ y_pred' = Append(y_pred, prediction)
    /\ UNCHANGED <<tm_pc, tm_runs>>
    /\ UNCHANGED not_tm

\* test_model_on_data(model, validation_data, day_number) on non-empty
\* validation data
test_model_on_data(simulated_labels) ==
    /\ y_pred # <<>>
    /\ Len(tm_runs) < MaxTestRuns
    /\ tm_pc' = "ready"
    /\ tm_runs' = Append(tm_runs, Metrics(simulated_labels, y_pred))
    /\ UNCHANGED y_pred
    /\ UNCHANGED not_tm

-----------------------------------------------------------------------------
(* generate_training_data: the dated dataset *)

\* for i in range(1, 4): the days whose logs make the label
GenFutureDays == 3

\* the days a file may exist for
StoreDays == 0..(MaxGenDays + GenFutureDays - 1)

NoDay == [graph |-> FALSE, logs |-> {}]

GDIdle ==
    /\ gd_pc = "idle"
    /\ gd_store = [d \in StoreDays |-> NoDay]
    /\ gd_day = 0
    /\ gd_end = 0
    /\ all_rows = <<>>
    /\ gd_out = <<>>
    /\ s3_dataset = [written |-> FALSE, rows |-> <<>>]

\* the logs a day may have, one row per contract: {} when there is no file
DayLogs == {{}, {"A"}, {"A", "B"}}

\* the files a run may find: graphs may be missing for the days it loops over
Stores ==
    {[d \in StoreDays |-> [graph |-> d \notin nograph, logs |-> l[d]]] :
        l \in [StoreDays -> DayLogs], nograph \in SUBSET (0..(MaxGenDays - 1))}

\* the future days of a day whose logs exist
FutureLogDays(store, day) ==
    {d \in (day + 1)..(day + GenFutureDays) :
        d \in DOMAIN store /\ store[d].logs # {}}

\* pd.concat(future_logs), as rows per contract
FutureRows(store, day) ==
    [c \in Contracts |->
        Cardinality({d \in FutureLogDays(store, day) : c \in store[d].logs})]

\* the columns of liq_df after groupby / agg / reset_index and the label
LiqColumns == {"Contract Address", "future_tx_count", "label"}

\* df[[...]]: KeyError unless every column asked for exists
Selectable(columns, wanted) == wanted \subseteq columns

\* pd.merge(features, liq_df[["contract", "label"]], on="contract") with
\* the date column
MergedRows(store, day) ==
    {[contract |-> r.contract, label |-> r.label, date |-> day] :
        r \in MergeOnContract(store[day].logs, AbsoluteLabels(FutureRows(store, day)))}

\* the body of the loop for one day
DayOutcome(store, day) ==
    IF ~store[day].graph \/ store[day].logs = {} THEN "Data not found"
    ELSE IF FutureLogDays(store, day) = {} THEN "No future logs"
    ELSE IF ~Selectable(LiqColumns, {"contract", "label"}) THEN "Error processing"
    ELSE "merged"

GenerateStart(store, start, end) ==
    /\ gd_pc = "idle"
    /\ gd_store' = store
    /\ gd_day' = start
    /\ gd_end' = end
    /\ all_rows' = <<>>
    /\ gd_out' = <<>>
    /\ gd_pc' = "loop"
    /\ UNCHANGED s3_dataset
    /\ UNCHANGED not_gd

\* one iteration of "for day in daterange(start, end)"
GenerateDay ==
    /\ gd_pc = "loop"
    /\ gd_day <= gd_end
    /\ gd_out' = Append(gd_out, [day |-> gd_day,
                                  outcome |-> DayOutcome(gd_store, gd_day)])
    /\ all_rows' = IF DayOutcome(gd_store, gd_day) = "merged"
                    THEN Append(all_rows, MergedRows(gd_store, gd_day))
                    ELSE all_rows
    /\ gd_day' = gd_day + 1
    /\ UNCHANGED <<gd_pc, gd_store, gd_end, s3_dataset>>
    /\ UNCHANGED not_gd

\* after the loop: nothing is written when no day was merged
GenerateFinish ==
    /\ gd_pc = "loop"
    /\ gd_day > gd_end
    /\ s3_dataset' = IF all_rows = <<>> THEN s3_dataset
                      ELSE [written |-> TRUE, rows |-> all_rows]
    /\ gd_pc' = "done"
    /\ UNCHANGED <<gd_store, gd_day, gd_end, all_rows, gd_out>>
    /\ UNCHANGED not_gd

-----------------------------------------------------------------------------
(* predict_with_walk_forward_model: choosing and loading the best model *)

NoRecord == PerformanceRecord(0, 0, 0)

NoKey == ModelKey(0, 0)

PWIdle ==
    /\ pw_pc = "idle"
    /\ best = NoRecord
    /\ model_key = NoKey

\* list_objects_v2(Prefix="training/models/walk_forward/day_<NNN>_"): the
\* stored keys of that day index, whatever their date
ListedKeys(models, model_day) == {k \in models : k[1] = model_day}

\* response['Contents'][0]['Key']: keys are listed in ascending order, so
\* the first is the one with the earliest date
FirstListedKey(models, record) ==
    CHOOSE k \in ListedKeys(models, record.day) :
        \A other \in ListedKeys(models, record.day) : k[2] <= other[2]

\* model_day is None: the summary is read, the row at best_idx (idxmax of
\* f1_score) is chosen and the model of its day is looked up
PredictWithWalkForwardModel(best_idx) ==
    /\ pw_pc = "idle"
    /\ wf_pc = "done"
    /\ IF s3_perf = <<>>
       THEN /\ pw_pc' = "no performance"
            /\ UNCHANGED <<best, model_key>>
       ELSE /\ best_idx \in DOMAIN s3_perf
            /\ best' = s3_perf[best_idx]
            /\ IF ListedKeys(s3_models, s3_perf[best_idx].day) = {}
               THEN /\ pw_pc' = "no model"
                    /\ UNCHANGED model_key
               ELSE /\ pw_pc' = "loaded"
                    /\ model_key' = FirstListedKey(s3_models, s3_perf[best_idx])
    /\ UNCHANGED not_pw

-----------------------------------------------------------------------------
(* Dashboard API: /api/predict against the files train_model writes.      *)
(* A training run is a process of its own; artifacts are named by the     *)
(* number of the run that wrote them.                                     *)

NothingUsed == [encode |-> 0, model |-> 0, decode |-> 0]

APIIdle ==
    /\ api_pc = "idle"
    /\ train_pc = "idle"
    /\ train_run = 0
    /\ disk_contracts = 0
    /\ disk_model = 0
    /\ model_cache = 0
    /\ contracts_cache = 0
    /\ used = NothingUsed
    /\ requests = 0

\* hermetik_model.train_model: build_features(train=True) writes
\* contracts_<max_lag>.json
TrainWriteContracts ==
    /\ train_pc = "idle"
    /\ train_run < MaxTrainRuns
    /\ train_run' = train_run + 1
    /\ disk_contracts' = train_run + 1
    /\ train_pc' = "fitting"
    /\ UNCHANGED <<api_pc, disk_model, model_cache, contracts_cache, used, requests>>
    /\ UNCHANGED not_api

\* hermetik_model.train_model: model.fit, then joblib.dump
TrainDumpModel ==
    /\ train_pc = "fitting"
    /\ disk_model' = train_run
    /\ train_pc' = "idle"
    /\ UNCHANGED <<api_pc, train_run, disk_contracts, model_cache, contracts_cache,
                   used, requests>>
    /\ UNCHANGED not_api

\* predict: the dataset is read and build_features encodes the pools with
\* the mapping read from contracts_<max_lag>.json, 404 when there is none
PredictBuildFeatures ==
    /\ api_pc = "idle"
    /\ requests < MaxRequests
    /\ requests' = requests + 1
    /\ IF disk_contracts = 0
       THEN /\ api_pc' = "failed"
            /\ used' = NothingUsed
       ELSE /\ api_pc' = "features"
            /\ used' = [NothingUsed EXCEPT !.encode = disk_contracts]
    /\ UNCHANGED <<train_pc, train_run, disk_contracts, disk_model, model_cache,
                   contracts_cache>>
    /\ UNCHANGED not_api

\* load_model: the cached model if there is one, else the file, which is
\* then cached; 404 when there is neither
load_model ==
    /\ api_pc = "features"
    /\ IF model_cache # 0
       THEN /\ used' = [used EXCEPT !.model = model_cache]
            /\ api_pc' = "model"
            /\ UNCHANGED model_cache
       ELSE IF disk_model = 0
       THEN /\ api_pc' = "failed"
            /\ UNCHANGED <<used, model_cache>>
       ELSE /\ used' = [used EXCEPT !.model = disk_model]
            /\ model_cache' = disk_model
            /\ api_pc' = "model"
    /\ UNCHANGED <<train_pc, train_run, disk_contracts, disk_model,
                   contracts_cache, requests>>
    /\ UNCHANGED not_api

\* load_contracts_mapping: the cached reverse mapping if there is one,
\* else the file, reversed and cached; then the response is built
load_contracts_mapping ==
    /\ api_pc = "model"
    /\ IF contracts_cache # 0
       THEN /\ used' = [used EXCEPT !.decode = contracts_cache]
            /\ UNCHANGED contracts_cache
       ELSE /\ used' = [used EXCEPT !.decode = disk_contracts]
            /\ contracts_cache' = disk_contracts
    /\ api_pc' = "done"
    /\ UNCHANGED <<train_pc, train_run, disk_contracts, disk_model, model_cache,
                   requests>>
    /\ UNCHANGED not_api

\* the response or the error has been sent; the server takes the next request
NextRequest ==
    /\ api_pc \in {"done", "failed"}
    /\ api_pc' = "idle"
    /\ UNCHANGED <<train_pc, train_run, disk_contracts, disk_model, model_cache,
                   contracts_cache, used, requests>>
    /\ UNCHANGED not_api

-----------------------------------------------------------------------------
(* Specifications *)

WFInit == WFIdle /\ FTIdle /\ LBIdle /\ ENIdle /\ BTIdle /\ TMIdle /\ GDIdle /\ PWIdle /\ APIIdle

WFNext ==
    \/ \E s \in StartDays, v \in ValidationDayChoices : WalkForwardStart(s, v)
    \/ \E td \in PullResults, vd \in ValidationPullResults,
          trainOk \in BOOLEAN, perfOk \in BOOLEAN, s3Ok \in BOOLEAN,
          raises \in BOOLEAN :
            WalkForwardCycle(td, trainOk, vd, perfOk, s3Ok, raises)
    \/ \E saveOk \in BOOLEAN : WalkForwardFinish(saveOk)

SpecWalkForward == WFInit /\ [][WFNext]_vars

\* the command is started and the loop, a sequential program, keeps taking
\* its next step
SpecWalkForwardFair == SpecWalkForward /\ WF_vars(WFNext)

\* runs one after another, one validation day, days with or without
\* training data, nothing else failing but the final save
WFRunsNext ==
    \/ \E s \in StartDays : WalkForwardStart(s, 1)
    \/ \E td \in {"nodata", "rows"} :
          WalkForwardCycle(td, TRUE, "rows", TRUE, TRUE, FALSE)
    \/ \E saveOk \in BOOLEAN : WalkForwardFinish(saveOk)
    \/ \E s \in StartDays : WalkForwardRestart(s, 1)

SpecWalkForwardRuns == WFInit /\ [][WFRunsNext]_vars

\* a prediction with the best model after some runs
WFPredictNext ==
    \/ \E s \in StartDays : WalkForwardStart(s, 1)
    \/ \E td \in {"nodata", "rows"} :
          WalkForwardCycle(td, TRUE, "rows", TRUE, TRUE, FALSE)
    \/ \E saveOk \in BOOLEAN : WalkForwardFinish(saveOk)
    \/ \E s \in StartDays : pw_pc = "idle" /\ WalkForwardRestart(s, 1)
    \/ \E best_idx \in 1..(MaxCycles + 1) : PredictWithWalkForwardModel(best_idx)

SpecWalkForwardPredict == WFInit /\ [][WFPredictNext]_vars

\* _features_from_logs_df(logs_df) on the batch read so far
FeaturesFromLogs ==
    /\ ft_pc = "input"
    /\ features' = features_from_logs_df(logs)
    /\ ft_pc' = "done"
    /\ UNCHANGED <<logs, lib, G, centrality>>
    /\ UNCHANGED not_ft

CentralityInit == WFIdle /\ FTIdle /\ LBIdle /\ ENIdle /\ BTIdle /\ TMIdle /\ GDIdle /\ PWIdle /\ APIIdle

\* rows arrive in block order, one block apart
CentralityNext ==
    \/ /\ Len(logs) < MaxGraphLogs
       /\ \E c \in Contracts, i \in Tokens, o \in Tokens :
             AppendLog(c, i, o, Len(logs) + 1)
    \/ \E b \in LibOutcomes, cl \in LibOutcomes, pw \in LibOutcomes,
          np \in LibOutcomes :
          BuildFeatureTable([betweenness |-> b, closeness |-> cl,
                             power_iteration |-> pw, eigenvector_numpy |-> np])

SpecCentrality == CentralityInit /\ [][CentralityNext]_vars

FeaturesInit == WFIdle /\ FTIdle /\ LBIdle /\ ENIdle /\ BTIdle /\ TMIdle /\ GDIdle /\ PWIdle /\ APIIdle

\* rows of any contract at any block, in any order
FeaturesNext ==
    \/ /\ Len(logs) < MaxLogs
       /\ \E c \in Contracts, b \in 1..MaxBlock : AppendLog(c, "t1", "t2", b)
    \/ FeaturesFromLogs

SpecFeatures == FeaturesInit /\ [][FeaturesNext]_vars

LabelsInit == WFIdle /\ FTIdle /\ LBIdle /\ ENIdle /\ BTIdle /\ TMIdle /\ GDIdle /\ PWIdle /\ APIIdle

LabelsNext ==
    \/ \E c \in Contracts : AddFeatureRow(c)
    \/ \E c \in Contracts : AddOtherRow(c)
    \/ BacktestLabels
    \/ DatedLabels
    \/ RollingLabels

SpecLabels == LabelsInit /\ [][LabelsNext]_vars

\* the training pull of one walk-forward cycle
TrainingLabelsNext ==
    \/ \E c \in Contracts : AddFeatureRow(c)
    \/ \E c \in Contracts : AddOtherRow(c)
    \/ WalkForwardLabels

SpecTrainingLabels == LabelsInit /\ [][TrainingLabelsNext]_vars

TestModelNext ==
    \/ \E prediction \in {0, 1} : AddValidationRow(prediction)
    \/ \E simulated_labels \in SimulatedLabels(Len(y_pred)) :
          test_model_on_data(simulated_labels)

SpecTestModel == LabelsInit /\ [][TestModelNext]_vars

GenerateNext ==
    \/ /\ gd_pc = "idle"
       /\ \E store \in Stores :
             \E start, end \in 0..(MaxGenDays - 1) :
                 GenerateStart(store, start, end)
    \/ GenerateDay
    \/ GenerateFinish

SpecGenerate == LabelsInit /\ [][GenerateNext]_vars

DashboardNext ==
    \/ TrainWriteContracts
    \/ TrainDumpModel
    \/ PredictBuildFeatures
    \/ load_model
    \/ load_contracts_mapping
    \/ NextRequest

SpecDashboard == LabelsInit /\ [][DashboardNext]_vars

EnsembleInit == WFIdle /\ FTIdle /\ LBIdle /\ ENIdle /\ BTIdle /\ TMIdle /\ GDIdle /\ PWIdle /\ APIIdle

\* --timeframes takes one or more windows, repeats allowed
TimeframeLists ==
    UNION {[1..n -> Windows] : n \in 1..MaxTimeframes}

EnsembleNext ==
    \/ \E w \in Windows, found \in BOOLEAN, m \in FitOutcomes :
          TrainModel(Lower(w), found, m)
    \/ \E m \in OriginalModels : PutOriginalModel(m)
    \/ \E tfs \in TimeframeLists, batch \in CurrentBatches :
          InferTopMultiTimeframe(tfs, batch, MaxTopK, TRUE,
                                 [c \in QueriedContracts(batch) |-> "error"])

SpecEnsemble == EnsembleInit /\ [][EnsembleNext]_vars

FilterInit == WFIdle /\ FTIdle /\ LBIdle /\ ENIdle /\ BTIdle /\ TMIdle /\ GDIdle /\ PWIdle /\ APIIdle

\* the rolling 1D batch is read row by row (every row's output token is
\* USDC), a 3d model may be trained, and infer-top runs on the batch
FilterNext ==
    \/ /\ Len(logs) < MaxFilterLogs
       /\ en_pc = "idle"
       /\ \E c \in Contracts, i \in TokenAddresses :
             AppendLog(c, i, "0xA0b86991", Len(logs) + 1)
    \/ \E found \in BOOLEAN, m \in FitOutcomes : TrainModel("3d", found, m)
    \/ \E k \in 1..MaxTopK, nofilter \in BOOLEAN,
          rpc \in [QueriedContracts(logs) -> RpcOutcomes] :
          InferTop("3d", logs, k, nofilter, rpc)

SpecFilter == FilterInit /\ [][FilterNext]_vars

\* the contract of the n-th row of the batch
PoolName(n) ==
    CASE n = 1 -> "A" [] n = 2 -> "B" [] n = 3 -> "C" [] n = 4 -> "D"
      [] OTHER -> "E"

\* the rolling 1D batch has one row per contract, from USDC or WETH to
\* USDC; a 1d model may be trained; the ensemble runs with the filter on
EnsembleFilterNext ==
    \/ /\ Len(logs) < MaxPools
       /\ en_pc = "idle"
       /\ \E i \in DOMAIN KNOWN_TOKENS :
             AppendLog(PoolName(Len(logs) + 1), i, "0xA0b86991", 1)
    \/ \E found \in BOOLEAN, m \in FitOutcomes : TrainModel("1d", found, m)
    \/ /\ logs # <<>>
       /\ \E k \in 1..MaxTopK :
             InferTopMultiTimeframe(<<"1D">>, logs, k, FALSE,
                                    [c \in {} |-> "error"])

SpecEnsembleFilter == FilterInit /\ [][EnsembleFilterNext]_vars

\* every command that writes a model, in any order, and ensemble runs on
\* one window; nothing is put in the bucket by hand
ArtifactsNext ==
    \/ \E w \in Windows, found \in BOOLEAN, m \in FitOutcomes :
          TrainModel(Lower(w), found, m)
    \/ \E s \in StartDays : WalkForwardStart(s, 1)
    \/ \E td \in {"nodata", "rows"}, s3Ok \in BOOLEAN :
          WalkForwardCycle(td, TRUE, "rows", TRUE, s3Ok, FALSE)
    \/ WalkForwardFinish(TRUE)
    \/ \E w \in Windows :
          InferTopMultiTimeframe(<<w>>, <<LogEvent("A", "t1", "t2", 1)>>,
                                 1, TRUE, [c \in {} |-> "error"])

SpecArtifacts == FilterInit /\ [][ArtifactsNext]_vars

BacktestInit == WFIdle /\ FTIdle /\ LBIdle /\ ENIdle /\ BTIdle /\ TMIdle /\ GDIdle /\ PWIdle /\ APIIdle

\* the rankings a forest can give two contracts
WeekOrders == {<<"A", "B">>, <<"B", "A">>}

\* one block per day, so that a week is 7 blocks
BacktestNext ==
    \/ \E c \in WeekContracts, b \in 1..Days : AddWeekRow(c, b)
    \/ \E k \in 0..MaxTopK, order \in WeekOrders :
          BacktestOneWeek(1, k, [t \in 0..(EvalDays - 1) |-> order])

SpecBacktest == BacktestInit /\ [][BacktestNext]_vars

\* a week of one contract, for any number of blocks per day
SlicesNext ==
    \/ \E b \in 1..MaxWeekBlock : AddWeekRow("A", b)
    \/ \E blocks \in 1..MaxBlocksPerDay, k \in 0..MaxTopK :
          BacktestOneWeek(blocks, k, [t \in 0..(EvalDays - 1) |-> <<"A", "B">>])

SpecSlices == BacktestInit /\ [][SlicesNext]_vars

-----------------------------------------------------------------------------
(* Walk-forward: training and validation dates *)

\* C1: in every cycle that trained a model, every training row comes from a
\* date strictly before the validation date of that cycle, whatever
\* --validation-days was given.
C1_TrainingStrictlyBeforeValidation ==
    last_cycle.trained =>
        last_cycle.training_rows_date < last_cycle.validation_date

-----------------------------------------------------------------------------
(* Token-flow graph and centrality *)

OutputsOf(logs_df, contract) ==
    {logs_df[i].output : i \in RowsOf(logs_df, contract)}

InputsOf(logs_df, contract) ==
    {logs_df[i].input : i \in RowsOf(logs_df, contract)}

EdgesFromTo(edges, a, b) == {e \in edges : e[1] = a /\ e[2] = b}

\* C2: for distinct contracts A, B the graph has the edge A->B iff
\* outputs(A) and inputs(B) share a token, its weight is the size of that
\* intersection, and no contract has an edge to itself.
C2_EdgeIffOutputsMeetInputs ==
    ft_pc = "done" =>
        /\ \A a \in ContractsIn(logs), b \in ContractsIn(logs) :
              a # b =>
                LET flow == OutputsOf(logs, a) \cap InputsOf(logs, b)
                IN  /\ (flow # {}) <=> (EdgesFromTo(G, a, b) # {})
                    /\ \A e \in EdgesFromTo(G, a, b) : e[3] = Cardinality(flow)
        /\ \A e \in G : e[1] # e[2]

CentralityFields(r) ==
    {r.betweenness_centrality, r.closeness_centrality, r.eigenvector_centrality}

\* C3: a contract with a feature row and no incident edge has all three
\* centrality scores equal to 0, and no centrality field of any row is null.
C3_IsolatedContractsGetZero ==
    ft_pc = "done" =>
        /\ \A r \in features :
              r.contract \notin Nodes(G) => CentralityFields(r) = {Zero}
        /\ \A r \in features : NaN \notin CentralityFields(r)

C3_Witness ==
    /\ ft_pc = "done"
    /\ lib.betweenness.ok /\ lib.betweenness.val # Zero
    /\ Cardinality(features) = 2
    /\ \E r \in features :
          /\ r.contract \notin Nodes(G)
          /\ CentralityFields(r) = {Zero}

\* C4: the eigenvector centrality returned is that of the first of (1) the
\* power iteration, (2) the numpy eigen-solve, (3) in-degree centrality that
\* does not fail; (3) only after (1) and (2) both failed; the call completes
\* whatever fails.
C4_EigenvectorFirstStrategyThatWorks ==
    ft_pc = "done" =>
        /\ lib.power_iteration.ok =>
              centrality.eigenvector_centrality = LibDict(G, lib.power_iteration)
        /\ (~lib.power_iteration.ok /\ lib.eigenvector_numpy.ok) =>
              centrality.eigenvector_centrality = LibDict(G, lib.eigenvector_numpy)
        /\ (~lib.power_iteration.ok /\ ~lib.eigenvector_numpy.ok) =>
              centrality.eigenvector_centrality = in_degree_centrality(G)

C4_Witness ==
    /\ ft_pc = "done"
    /\ ~lib.power_iteration.ok /\ ~lib.eigenvector_numpy.ok
    /\ G # {}
    /\ \A n \in Nodes(G) : centrality.eigenvector_centrality[n] = <<1, 1>>

\* C5 as stated: a failed betweenness or closeness computation is replaced
\* by the normalized in-degree centrality of each node.
C5_FailedMetricGetsInDegree ==
    ft_pc = "done" =>
        /\ ~lib.betweenness.ok =>
              centrality.betweenness_centrality = in_degree_centrality(G)
        /\ ~lib.closeness.ok =>
              centrality.closeness_centrality = in_degree_centrality(G)

\* C5 amended: a failed betweenness or closeness computation is replaced by
\* 0 for every node of the graph, and each of the two metrics depends on the
\* outcome of its own computation only.
C5_FailedMetricGetsZero ==
    ft_pc = "done" =>
        /\ centrality.betweenness_centrality =
              IF lib.betweenness.ok THEN LibDict(G, lib.betweenness)
              ELSE [n \in Nodes(G) |-> Zero]
        /\ centrality.closeness_centrality =
              IF lib.closeness.ok THEN LibDict(G, lib.closeness)
              ELSE [n \in Nodes(G) |-> Zero]

C5_Witness ==
    /\ ft_pc = "done"
    /\ G # {}
    /\ ~lib.betweenness.ok
    /\ lib.closeness.ok /\ lib.closeness.val # Zero
    /\ \A n \in Nodes(G) :
          /\ centrality.betweenness_centrality[n] = Zero
          /\ centrality.closeness_centrality[n] = lib.closeness.val

-----------------------------------------------------------------------------
(* Feature aggregation *)

\* C8: the feature table has exactly one row per contract of the batch and
\* none for another contract; tx_count is the number of the contract's
\* events, min_block / max_block the least / greatest of their block numbers,
\* activity_span = max_block - min_block >= 0; an empty batch gives an empty
\* table.
C8_OneRowPerContract ==
    ft_pc = "done" =>
        /\ {r.contract : r \in features} = ContractsIn(logs)
        /\ \A r1 \in features, r2 \in features :
              r1.contract = r2.contract => r1 = r2
        /\ \A r \in features :
              /\ r.tx_count = Cardinality(RowsOf(logs, r.contract))
              /\ \E i \in RowsOf(logs, r.contract) : logs[i].block = r.min_block
              /\ \E i \in RowsOf(logs, r.contract) : logs[i].block = r.max_block
              /\ \A i \in RowsOf(logs, r.contract) :
                    r.min_block <= logs[i].block /\ logs[i].block <= r.max_block
              /\ r.activity_span = r.max_block - r.min_block
              /\ r.activity_span >= 0
        /\ logs = <<>> => features = {}

C8_Witness ==
    /\ ft_pc = "done"
    /\ Cardinality(features) = 2
    /\ \E r \in features :
          /\ r.tx_count = 2
          /\ r.activity_span = MaxBlock - 1
          /\ logs[1].contract = r.contract
          /\ logs[1].block = r.max_block

-----------------------------------------------------------------------------
(* Labelling *)

Labelled(table) == {r \in table : r.label = 1}

AtThreshold(table, thr, den) == {r \in table : den * r.metric = thr}

AbsoluteLabelling ==
    /\ lb_pc = "done"
    /\ lb_mode \in {"backtest", "dated"}
    /\ label_table # {}

\* C6 as stated: under absolute-activity labelling of a non-empty future
\* window the fraction of contracts labelled 1 is at most 0.10, and exceeds
\* it only when several contracts tie at the threshold value.
C6_AtMostTenPercent ==
    AbsoluteLabelling =>
        \/ 10 * Cardinality(Labelled(label_table)) <= Cardinality(label_table)
        \/ Cardinality(AtThreshold(label_table, threshold, 10)) >= 2

\* C6 amended: label = 1 iff future_tx_count >= the threshold; at least one
\* contract is labelled 1, and the fraction labelled 1 is at most
\* 0.10 + 0.9 / n for n contracts unless several contracts tie at the
\* threshold value.
C6_AtMostTenPercentOfNPlusNine ==
    AbsoluteLabelling =>
        /\ \A r \in label_table :
              (r.label = 1) <=> (10 * r.metric >= threshold)
        /\ \A r \in label_table : r.metric = other_rows[r.contract]
        /\ Cardinality(Labelled(label_table)) >= 1
        /\ \/ 10 * Cardinality(Labelled(label_table))
                  <= Cardinality(label_table) + 9
           \/ Cardinality(AtThreshold(label_table, threshold, 10)) >= 2

C6_Witness ==
    /\ AbsoluteLabelling
    /\ Cardinality(label_table) = 3
    /\ Cardinality({r.metric : r \in label_table}) = 3
    /\ Cardinality(Labelled(label_table)) = 1
    /\ AtThreshold(label_table, threshold, 10) = {}

\* the window the forward metric is counted over: the future slices
\* (backtest, dated), the historical logs standing in for them (rolling)
NoFutureEvent(c) ==
    IF lb_mode = "rolling" THEN feature_rows[c] = 0 ELSE other_rows[c] = 0

\* C7: in every labelling path a contract with no event in the future window
\* gets no label: it has no row in the table the quantile is taken over and
\* no row among the labelled rows.
C7_NoFutureNoLabel ==
    lb_pc = "done" =>
        \A c \in Contracts :
            NoFutureEvent(c) =>
                /\ \A r \in label_table : r.contract # c
                /\ \A r \in labelled_rows : r.contract # c

-----------------------------------------------------------------------------
(* Ensemble: combined score and window weights *)

\* the positions of the request whose window was scored
ScoredPositions(tfs, store) ==
    {i \in DOMAIN tfs : ~Skipped(store, tfs[i])}

RECURSIVE SumOver(_, _, _, _)
SumOver(S, tfs, store, row) ==
    IF S = {} THEN 0
    ELSE LET i == CHOOSE j \in S : TRUE
         IN  TimeframeWeight(tfs[i])
                 * PredictProba(LoadModel(store, tfs[i]).model, row)
             + SumOver(S \ {i}, tfs, store, row)

\* the request in another order
Reordered(tfs, p) == [i \in DOMAIN tfs |-> tfs[p[i]]]

AppliedWeights(w) ==
    {weighted_probabilities.successful_models[i].weight :
        i \in {j \in DOMAIN weighted_probabilities.successful_models :
                 weighted_probabilities.successful_models[j].timeframe = w}}

RECURSIVE TotalWeight(_)
TotalWeight(S) ==
    IF S = {} THEN 0
    ELSE LET w == CHOOSE x \in S : TRUE
         IN  TimeframeWeight(w) + TotalWeight(S \ {w})

\* C10: the weights applied are 0.40 for 1D, 0.35 for 3D and 0.20 for 1W;
\* the weights of the remaining windows 3W and 1M add up to 0.05, and the
\* weights of all windows add up to 1.00.
C10_RemainingWindowsShareFivePercent ==
    en_pc = "done" =>
        /\ AppliedWeights("1D") \subseteq {40}
        /\ AppliedWeights("3D") \subseteq {35}
        /\ AppliedWeights("1W") \subseteq {20}
        /\ \A a \in AppliedWeights("3W"), b \in AppliedWeights("1M") :
              a + b = 5
        /\ TotalWeight(Windows) = 100

\* C10 as the code has it: 0.40, 0.35 and 0.20 for 1D, 3D and 1W, and 0.05
\* for each of 3W and 1M, so the remaining windows add up to 0.10 and all
\* windows to 1.05.
C10_RemainingWindowsFivePercentEach ==
    en_pc = "done" =>
        /\ AppliedWeights("1D") \subseteq {40}
        /\ AppliedWeights("3D") \subseteq {35}
        /\ AppliedWeights("1W") \subseteq {20}
        /\ AppliedWeights("3W") \subseteq {5}
        /\ AppliedWeights("1M") \subseteq {5}
        /\ \A a \in AppliedWeights("3W"), b \in AppliedWeights("1M") :
              a + b = 10
        /\ TotalWeight(Windows) = 105

C10_Witness ==
    /\ en_pc = "done"
    /\ AppliedWeights("3W") # {}
    /\ AppliedWeights("1M") # {}

-----------------------------------------------------------------------------
(* Ensemble: which model a window uses *)

Range(seq) == {seq[i] : i \in DOMAIN seq}

SpecificStored(w) == s3_tf_models[WindowModelKey(Lower(w))] # "absent"

OriginalStored == s3_tf_models[OriginalModelKey] # "absent"

\* the windows that contributed to the combined score
ScoredWindows ==
    {e.timeframe : e \in Range(weighted_probabilities.successful_models)}

\* the source printed for window w
PrintedSources(w) ==
    {l.model_source : l \in {x \in Range(weighted_probabilities.loaded) :
                                x.timeframe = w}}

C11_SourcesAsStored ==
    \A w \in Range(timeframes) :
        /\ SpecificStored(w) => PrintedSources(w) = {"specific"}
        /\ (~SpecificStored(w) /\ OriginalStored)
              => PrintedSources(w) = {"original"}
        /\ (~SpecificStored(w) /\ ~OriginalStored) => PrintedSources(w) = {}

\* C11: a window whose own model is stored uses it; the original model is
\* used only when the window's own is absent; a window is skipped only when
\* neither is stored; every window that used the original model is printed
\* as such.
C11_SkippedOnlyWhenNothingStored ==
    en_pc \in {"done", "no_models"} =>
        /\ C11_SourcesAsStored
        /\ \A w \in Range(timeframes) :
              w \notin ScoredWindows => (~SpecificStored(w) /\ ~OriginalStored)

\* C11 as the code has it: a window is also skipped when scoring with the
\* model chosen for it raises, whatever else is stored.
C11_SkippedWhenNothingStoredOrScoringRaised ==
    en_pc \in {"done", "no_models"} =>
        /\ C11_SourcesAsStored
        /\ \A w \in Range(timeframes) :
              w \notin ScoredWindows <=>
                  \/ ~SpecificStored(w) /\ ~OriginalStored
                  \/ s3_tf_models[WindowModelKey(Lower(w))] = "one_class"
                  \/ ~SpecificStored(w)
                        /\ s3_tf_models[OriginalModelKey] = "one_class"

\* one window scored by its own model, another by the original model
C11_Witness ==
    /\ en_pc = "done"
    /\ \E w \in ScoredWindows : PrintedSources(w) = {"specific"}
    /\ \E w \in ScoredWindows : PrintedSources(w) = {"original"}

-----------------------------------------------------------------------------
(* Token filter *)

PoolContracts == {pools.filtered_pools[i].contract :
                     i \in DOMAIN pools.filtered_pools}

\* the symbols resolved for contract c in the run
CheckedSymbols(c) ==
    {pools.pools_checked[i].symbols :
        i \in {j \in DOMAIN pools.pools_checked :
                 pools.pools_checked[j].contract = c}}

\* C12: with filtering on, a contract is in the filtered result only if
\* every token seen for it in the logs, input or output, was resolved to a
\* symbol of the allow-list; a contract with a token resolved to another
\* symbol, or not resolved, is never in the result.
C12_AllTokensAllowedOrExcluded ==
    (en_pc = "done" /\ ~no_filter) =>
        \A c \in Contracts :
            /\ c \in PoolContracts =>
                  /\ CheckedSymbols(c) # {}
                  /\ \A symbols \in CheckedSymbols(c) :
                        /\ DOMAIN symbols =
                              {logs[i].input : i \in RowsOf(logs, c)}
                                \cup {logs[i].output : i \in RowsOf(logs, c)}
                        /\ \A t \in DOMAIN symbols :
                              symbols[t] \in ALLOWED_TOKENS
            /\ (\E symbols \in CheckedSymbols(c) : \E t \in DOMAIN symbols :
                    symbols[t] \notin ALLOWED_TOKENS)
                  => c \notin PoolContracts
            /\ (\E i \in RowsOf(logs, c) : logs[i].input = "0xC02aaA39")
                  => c \notin PoolContracts

\* a run that kept one pool and dropped one ranked ahead of it, scored at
\* least as high, for a token that could not be resolved
C12_Witness ==
    /\ en_pc = "done"
    /\ ~no_filter
    /\ \E i \in DOMAIN pools.filtered_pools :
          \E j \in DOMAIN pools.pools_checked :
              /\ pools.pools_checked[j].contract \notin PoolContracts
              /\ \E r \in current_features :
                    /\ r.contract = pools.pools_checked[j].contract
                    /\ r.predicted_probability >= pools.filtered_pools[i].prob
              /\ \E k \in DOMAIN pools.pools_checked :
                    /\ j < k
                    /\ pools.pools_checked[k].contract
                          = pools.filtered_pools[i].contract
              /\ \E t \in DOMAIN pools.pools_checked[j].symbols :
                    pools.pools_checked[j].symbols[t]
                        = Shortened("0x1f9840a8")

-----------------------------------------------------------------------------
(* Backtest: the day slices *)

WeekBlocks == {week_logs[i].block : i \in DOMAIN week_logs}

\* the slices whose block range holds block b
SlicesOfBlock(b) == {i \in DOMAIN slices : slices[i].lo <= b /\ b <= slices[i].hi}

\* the slices whose rows include row r
SlicesOfRow(r) ==
    {i \in DOMAIN slices : \E j \in DOMAIN slices[i].rows : slices[i].rows[j] = r}

\* C13: the 7 slices have blocks_per_day blocks each, start at
\* max_block - 7 * blocks_per_day + 1, end at max_block, each starts right
\* after the one before ends; every row is in at most one slice, and in
\* exactly one when its block is in the range.
C13_SevenContiguousDisjointSlices ==
    (bt_pc # "input" /\ week_logs # <<>>) =>
        /\ DOMAIN slices = 0..6
        /\ slices[0].lo = Max(WeekBlocks) - 7 * blocks_per_day + 1
        /\ slices[6].hi = Max(WeekBlocks)
        /\ \A i \in 0..6 : slices[i].hi - slices[i].lo + 1 = blocks_per_day
        /\ \A i \in 0..5 : slices[i + 1].lo = slices[i].hi + 1
        /\ \A j \in DOMAIN week_logs :
              /\ Cardinality(SlicesOfRow(week_logs[j])) <= 1
              /\ SlicesOfRow(week_logs[j]) = SlicesOfBlock(week_logs[j].block)
              /\ week_logs[j].block >= Max(WeekBlocks) - 7 * blocks_per_day + 1
                    => Cardinality(SlicesOfRow(week_logs[j])) = 1

\* two blocks a day: two rows in one slice and rows in two other slices
C13_Witness ==
    /\ bt_pc # "input"
    /\ week_logs # <<>>
    /\ blocks_per_day = 2
    /\ \E i \in 0..6 : Len(slices[i].rows) = 2
    /\ Cardinality({i \in 0..6 : slices[i].rows # <<>>}) >= 3

-----------------------------------------------------------------------------
(* Backtest: the evaluated days and Precision@K *)

EvaluatedDays == {results[i].t : i \in DOMAIN results}

HasTraining(t) == TrainingRows(slices, t) # {}

HasTest(t) ==
    /\ slices[t].rows # <<>>
    /\ label_from_future(slices, t) # {}

\* C14: every day t of 0..5 that has a future day among t+1..t+3 inside
\* the window, training rows from earlier days and test data is evaluated
\* and gets a Precision@K value.
C14_EveryDayWithFutureEvaluated ==
    (bt_pc = "done" /\ week_logs # <<>>) =>
        \A t \in 0..5 :
            (FutureDays(t) # {} /\ HasTraining(t) /\ HasTest(t))
                => t \in EvaluatedDays

\* C15: for K >= 1 every reported value is the number of truly labelled
\* contracts among the top K, divided by K.
C15_HitsOverK ==
    (bt_pc # "input" /\ bt_top_k >= 1) =>
        \A i \in DOMAIN results :
            results[i].prec_at_k =
                Fraction(Cardinality(Range(results[i].top)
                                       \cap results[i].truth),
                         bt_top_k)

\* C16: every reported value is between 0 and 1; it is 0 when K = 0 and
\* when no contract of the day is labelled 1; computing it never divides
\* by zero; the printed average is the sum of the values over the number
\* of evaluated days.
C16_PrecisionInUnitRange ==
    bt_pc # "input" =>
        /\ \A i \in DOMAIN results :
              /\ results[i].prec_at_k[2] >= 1
              /\ 0 <= results[i].prec_at_k[1]
              /\ results[i].prec_at_k[1] <= results[i].prec_at_k[2]
              /\ bt_top_k = 0 => results[i].prec_at_k = Zero
              /\ {slices[results[i].t].rows[j].contract :
                     j \in DOMAIN slices[results[i].t].rows}
                    \cap results[i].truth = {}
                    => results[i].prec_at_k = Zero
        /\ (bt_pc = "done" /\ results # <<>>) =>
              /\ average[2] >= 1
              /\ average[1] * SumPrecision(results)[2] * Len(results)
                    = SumPrecision(results)[1] * average[2]
        /\ (bt_pc = "done" /\ results = <<>>) => average = NaN

\* a run with K = 0 that evaluated a day and skipped another
C16_Witness ==
    /\ bt_pc = "done"
    /\ bt_top_k = 0
    /\ results # <<>>
    /\ skipped # {}

-----------------------------------------------------------------------------
(* Walk-forward: cycles, records and model versions *)

\* a step that ran one iteration of the loop
CycleStep == wf_pc = "loop" /\ last_cycle' # last_cycle

\* C17: an iteration without training data, with a failed training,
\* without validation data or with an exception appends no
\* PerformanceRecord, leaves the records and model versions of earlier
\* iterations as they were, and the loop goes on with the day index one
\* higher.
C17_FailedCycleChangesNothing ==
    [][(CycleStep /\ last_cycle'.outcome # "tested") =>
          /\ daily_performance' = daily_performance
          /\ model_versions' = model_versions
          /\ s3_models' = s3_models
          /\ s3_perf' = s3_perf
          /\ wf_pc' = "loop"
          /\ last_cycle'.day = day_number
          /\ day_number' = day_number + 1]_vars

\* an iteration that raised, after an iteration that was recorded
C17_Witness ==
    /\ wf_pc = "loop"
    /\ last_cycle.outcome = "error"
    /\ daily_performance # <<>>
    /\ model_versions # <<>>
    /\ day_number = last_cycle.day + 1

\* C18: every iteration that trained a model has stored it under its day
\* index and training date, also when the validation could not be done
\* (stated for runs that step forward in time, and for writes that the
\* store accepts).
C18_TrainedModelStored ==
    (validation_days >= 1 /\ last_cycle.trained /\ last_cycle.store_ok) =>
        ModelKey(last_cycle.day, last_cycle.training_date) \in s3_models

IsPrefix(a, b) == Len(a) <= Len(b) /\ SubSeq(b, 1, Len(a)) = a

StrictlyIncreasing(seq, field) ==
    \A i, j \in DOMAIN seq : i < j => seq[i][field] < seq[j][field]

\* C19: within a run the PerformanceRecords and the model versions only
\* grow at the end, days and training dates strictly increase along each,
\* no two PerformanceRecords have the same day, and every
\* PerformanceRecord's day has a model version.
C19_AppendOnlyTimeOrdered ==
    /\ [][(wf_pc = "loop" /\ wf_pc' = "loop") =>
             /\ IsPrefix(daily_performance, daily_performance')
             /\ IsPrefix(model_versions, model_versions')]_vars
    /\ [](/\ StrictlyIncreasing(daily_performance, "day")
          /\ StrictlyIncreasing(daily_performance, "training_date")
          /\ StrictlyIncreasing(model_versions, "day")
          /\ StrictlyIncreasing(model_versions, "training_date")
          /\ \A i \in DOMAIN daily_performance :
                \E j \in DOMAIN model_versions :
                    model_versions[j].day = daily_performance[i].day)

\* C20: when a run ends, the stored performance table is what was stored
\* before followed by the rows of this run (or is left as it was when the
\* save fails).
C20_PerformanceTableCumulative ==
    [][(wf_pc = "loop" /\ wf_pc' = "done") =>
          \/ s3_perf' = s3_perf \o daily_performance
          \/ s3_perf' = s3_perf]_vars

-----------------------------------------------------------------------------
(* Walk-forward: training labels and validation scores *)

\* C21: the labels of a walk-forward cycle's training rows are the
\* absolute-activity labels of the logs of the following three days, not
\* labels computed from the day's own logs.
C21_LabelsFromFutureDays ==
    (lb_pc = "done" /\ lb_mode = "walk_forward") =>
        labelled_rows = MergeOnContract(Present(feature_rows),
                                        AbsoluteLabels(other_rows))

\* C22: the metrics of a cycle depend only on the model and the validation
\* day's data: every call of test_model_on_data with the same model and
\* the same validation rows returns the same accuracy, precision, recall
\* and f1.
C22_SameInputsSameMetrics ==
    \A i, j \in DOMAIN tm_runs : tm_runs[i] = tm_runs[j]

-----------------------------------------------------------------------------
(* generate_training_data *)

\* the days of the run that have their graph, their logs and logs of at
\* least one of the next three days
UsableDays ==
    {d \in 0..gd_end :
        /\ \E i \in DOMAIN gd_out : gd_out[i].day = d
        /\ gd_store[d].graph
        /\ gd_store[d].logs # {}
        /\ FutureLogDays(gd_store, d) # {}}

DatasetRows == UNION {s3_dataset.rows[i] : i \in DOMAIN s3_dataset.rows}

\* C23: a day without logs, graph or future logs is skipped and the loop
\* goes on; every other day contributes to the uploaded dataset the
\* labelled rows of the contracts found both in its features and in its
\* future window, tagged with its date.
C23_UsableDaysContributeRows ==
    gd_pc = "done" =>
        /\ \A i \in DOMAIN gd_out : gd_out[i].day = gd_end - Len(gd_out) + i
        /\ \A d \in UsableDays :
              MergedRows(gd_store, d) \subseteq DatasetRows
        /\ \A r \in DatasetRows :
              r.date \in UsableDays /\ r \in MergedRows(gd_store, r.date)

-----------------------------------------------------------------------------
(* predict_with_walk_forward_model *)

\* C24: the artifact loaded is the one whose day index and training date
\* are those of the PerformanceRecord chosen as best, whatever runs came
\* before; choosing writes nothing to the performance table or to the
\* model artifacts.
C24_LoadsModelOfBestRecord ==
    /\ [](pw_pc = "loaded" =>
             model_key = ModelKey(best.day, best.training_date))
    /\ [][pw_pc' # pw_pc => (s3_perf' = s3_perf /\ s3_models' = s3_models)]_vars

-----------------------------------------------------------------------------
(* Ensemble: progress across windows *)

\* the model the two try blocks pick for window w: its own, else the
\* original one
ChosenModel(w) ==
    IF SpecificStored(w) THEN s3_tf_models[WindowModelKey(Lower(w))]
    ELSE s3_tf_models[OriginalModelKey]

\* scoring with the model picked for w raises
ScoringRaises(w) == ChosenModel(w) = "one_class"

Scorable(w) == ChosenModel(w) \notin {"absent", "one_class"}

ScoredInOrder ==
    [i \in DOMAIN weighted_probabilities.successful_models |->
        weighted_probabilities.successful_models[i].timeframe]

-----------------------------------------------------------------------------
(* Walk-forward: progress and termination *)

\* C26: whatever start date and --validation-days the command line accepts,
\* every iteration of the loop (completed, skipped or failed) moves the
\* training date strictly forward, and the run reaches the end of the loop.
C26_MovesForwardAndTerminates ==
    /\ [][CycleStep => current_date' > current_date]_vars
    /\ <>(wf_pc = "done")

-----------------------------------------------------------------------------
(* Backtest: what the classifier of day t is trained on *)

\* the segments whose events the label of a training row is computed from
LabelSegments(r) == FutureDays(r.day)

\* C27: for every evaluated day t the training rows come from days before
\* t, and their labels are computed only from days before t: no training
\* label depends on the events of day t or of a later day.
C27_TrainedOnlyOnEarlierDays ==
    bt_pc = "done" =>
        \A i \in DOMAIN results :
            \A r \in TrainingRows(slices, results[i].t) :
                /\ r.day < results[i].t
                /\ \A k \in LabelSegments(r) : k < results[i].t

-----------------------------------------------------------------------------
(* Ensemble: the filtered result *)

\* the scored contracts whose tokens, input or output, are all known under
\* an allow-listed symbol
FullyAllowed ==
    {r \in current_features :
        \A i \in RowsOf(logs, r.contract) :
            /\ logs[i].input \in DOMAIN KNOWN_TOKENS
            /\ KNOWN_TOKENS[logs[i].input] \in ALLOWED_TOKENS
            /\ logs[i].output \in DOMAIN KNOWN_TOKENS
            /\ KNOWN_TOKENS[logs[i].output] \in ALLOWED_TOKENS}

\* C28: with the filter on, the result of the ensemble run is the first
\* top_k, by descending combined score, of all scored contracts whose
\* tokens are all allow-listed; when it has fewer than top_k entries it
\* holds every such contract.
C28_FirstTopKOfAllAllowed ==
    (en_pc = "done" /\ ~no_filter) =>
        /\ PoolContracts \subseteq {r.contract : r \in FullyAllowed}
        /\ Len(pools.filtered_pools) <= top_k
        /\ \A i, j \in DOMAIN pools.filtered_pools :
              i < j => /\ pools.filtered_pools[i].prob >= pools.filtered_pools[j].prob
                       /\ pools.filtered_pools[i].contract
                             # pools.filtered_pools[j].contract
        /\ \A r \in FullyAllowed :
              r.contract \notin PoolContracts =>
                  /\ Len(pools.filtered_pools) = top_k
                  /\ \A i \in DOMAIN pools.filtered_pools :
                        pools.filtered_pools[i].prob >= r.predicted_probability

-----------------------------------------------------------------------------
(* Dashboard API *)

\* C29: whatever the interleaving of training runs and requests, the
\* mapping that encoded the pools, the model that scored them and the
\* mapping that decoded the result of one response come from the same
\* training run.
C29_OneResponseOneTrainingRun ==
    api_pc = "done" =>
        /\ used.encode = used.model
        /\ used.model = used.decode

-----------------------------------------------------------------------------
(* Model artifacts *)

StoredModelKeys == {k \in DOMAIN s3_tf_models : s3_tf_models[k] # "absent"}

====
